---- MODULE Spec2Model ----
(***************************************************************************)
(* Payment status state machine, webhook ingestion and event publisher of  *)
(* the payment system (NestJS / TypeORM / SQS).                            *)
(*                                                                         *)
(* Amounts are in minor units (cents).  An HMAC hex digest is modelled as  *)
(* the record of (algorithm, secret, message) it was computed from, i.e.   *)
(* the MAC is collision free.  A raw body is the payload it serialises.    *)
(***************************************************************************)
EXTENDS Integers, Sequences, FiniteSets, TLC

(* ------------------------------ bounds -------------------------------- *)
MaxPayments == 1
MaxProcs == 2
MaxBatchEvents == 3
MaxLoops == 2
MaxMessages == 2
MaxReceives == 6
MaxUuids == 4

(* ------------------------- program constants -------------------------- *)
maxRetries == 3
NullTime == 0 - 1
NullAmount == 0 - 1
Undef == "undefined"

(* ----------------------- PaymentStatus (enum) ------------------------- *)
PaymentStatus ==
  {"PENDING", "PROCESSING", "COMPLETED", "FAILED", "CANCELLED",
   "REFUNDED", "PARTIALLY_REFUNDED", "DISPUTED", "EXPIRED"}

PaymentEventType ==
  {"PAYMENT_INITIATED", "PAYMENT_PROCESSING", "PAYMENT_COMPLETED",
   "PAYMENT_FAILED", "PAYMENT_CANCELLED", "PAYMENT_REFUNDED",
   "PAYMENT_DISPUTED"}

(* validTransitions of isValidStatusTransition *)
validTransitions ==
  [s \in PaymentStatus |->
     CASE s = "PENDING" ->
            {"PROCESSING", "COMPLETED", "FAILED", "CANCELLED", "EXPIRED"}
       [] s = "PROCESSING" -> {"COMPLETED", "FAILED", "CANCELLED"}
       [] s = "COMPLETED" -> {"REFUNDED", "PARTIALLY_REFUNDED", "DISPUTED"}
       [] s = "FAILED" -> {}
       [] s = "CANCELLED" -> {}
       [] s = "REFUNDED" -> {}
       [] s = "PARTIALLY_REFUNDED" -> {"REFUNDED"}
       [] s = "DISPUTED" -> {}
       [] s = "EXPIRED" -> {}]

isValidStatusTransition_AllowsSame(currentStatus, newStatus) ==
  \/ currentStatus \in DOMAIN validTransitions
       /\ newStatus \in validTransitions[currentStatus]
  \/ currentStatus = newStatus /\ currentStatus = "PROCESSING"

isValidStatusTransition_RetriesFailed(currentStatus, newStatus) ==
  \/ currentStatus \in DOMAIN validTransitions
       /\ newStatus \in validTransitions[currentStatus]
  \/ currentStatus = "FAILED" /\ newStatus = "PROCESSING"

(* validTransitions[currentStatus]?.includes(newStatus) ?? false *)
isValidStatusTransition(currentStatus, newStatus) ==
  IF currentStatus \in DOMAIN validTransitions
    THEN newStatus \in validTransitions[currentStatus]
    ELSE FALSE

(* a net amount that leaves the fees out *)
calculateNetAmount_IgnoresFees(payment) == payment.amount

(* payment.amount - payment.gatewayFee - payment.platformFee *)
calculateNetAmount(payment) ==
  payment.amount - payment.gatewayFee - payment.platformFee

(* ------------------------------ universe ------------------------------ *)
RefNames == <<"PAY_1", "PAY_2", "PAY_3", "PAY_4">>
MerchantIds == {"m1", "m2"}
Amounts == {10050, 2500}

VARIABLES
  payments,    \* payments table: reference -> row
  merchants,   \* merchants table: id -> row
  awsConfig,   \* configService.get('app.aws') read by the producer's constructor
  now,         \* the clock (new Date()): it advances with every handler that writes
  last,        \* outcome of the operation that ran last
  proc,        \* in-flight requests of the interleaved specification
  isRunning,       \* SqsConsumerService.isRunning
  pollingTimeout,  \* SqsConsumerService.pollingTimeout: the timer handle kept
  loops,           \* the consumer's poll() chains: in flight, or waiting on a timer
  queue,           \* the messages of the queue the consumer reads
  uuids            \* how many values uuidv4() has returned so far

consumerVars == <<isRunning, pollingTimeout, loops, queue>>

vars == <<payments, merchants, awsConfig, now, last, proc, consumerVars, uuids>>

LoopIds == 1..MaxLoops
MessageIds == 1..MaxMessages
NoTimer == 0
NoLoop == [pc |-> "none", batch |-> {}]

(* the consumer before startPolling *)
IdleConsumer ==
  /\ isRunning = FALSE
  /\ pollingTimeout = NoTimer
  /\ loops = [l \in LoopIds |-> NoLoop]

(* ------------------------------ inputs -------------------------------- *)
Null == "null"
ReferenceInputs ==
  {RefNames[i] : i \in 1..MaxPayments} \cup {"PAY_NONEXISTENT", Undef}
GatewayRefInputs == {Undef, "pi_1"}
FailureDefault == [code |-> Undef, reason |-> Undef]
FailureInputs ==
  {FailureDefault,
   [code |-> "card_declined", reason |-> "Your card was declined."]}
StatusInputs == PaymentStatus \cup {"bogus"}

(* app.aws as the producer's constructor may find it *)
ConfigValues == {Undef, "", "   ", "set"}
AllAwsConfigs ==
  [region : ConfigValues, accessKeyId : ConfigValues,
   secretAccessKey : ConfigValues, sqsQueueUrl : ConfigValues]
FullAwsConfig ==
  [region |-> "set", accessKeyId |-> "set", secretAccessKey |-> "set",
   sqsQueueUrl |-> "set"]
AwsConfigs == {FullAwsConfig, [FullAwsConfig EXCEPT !.sqsQueueUrl = "   "]}

(* The queue's answers to the calls of sqs.sendMessage made by one publish:
   the first k calls are rejected, every later one is accepted. *)
QueueLen == maxRetries + 2
QueueBehaviours ==
  {[i \in 1..QueueLen |-> i > k] : k \in 0..QueueLen}
(* for the handlers: the queue accepts at once, or rejects every call *)
HandlerQueueBehaviours ==
  {q \in QueueBehaviours : q[1] \/ ~q[QueueLen]}

(* --------------------------- SqsProducerService ------------------------ *)
trim(s) == IF s \in {"", " ", "   "} THEN "" ELSE s

isBlank_WithoutTrim(v) == v = Undef \/ v = ""

(* !v || v.trim() === '' *)
isBlank(v) == v = Undef \/ v = "" \/ trim(v) = ""

(* constructor: this.sqs / this.queueUrl are non-null *)
sqsConfigured(cfg) ==
  ~(isBlank(cfg.region) \/ isBlank(cfg.accessKeyId)
    \/ isBlank(cfg.secretAccessKey) \/ isBlank(cfg.sqsQueueUrl))

(* sendMessage(event, retryCount): result and the number of sqs.sendMessage calls *)
RECURSIVE sendMessage(_, _, _)
sendMessage(cfg, q, retryCount) ==
  IF ~sqsConfigured(cfg)
    THEN [result |-> "sqs-disabled", sends |-> 0]
    ELSE IF q[retryCount + 1]
      THEN [result |-> "MessageId", sends |-> 1]
      ELSE IF retryCount < maxRetries
        THEN LET r == sendMessage(cfg, q, retryCount + 1)
             IN  [r EXCEPT !.sends = @ + 1]
        ELSE [result |-> "throw", sends |-> 1]

(* uuidv4(): a value it has not returned before. The values are numbered in
   the order they are drawn, `drawn` being how many the caller had drawn. *)
uuidv4(drawn) == drawn + 1

(* a deduplication id made anew for every send attempt *)
messageDeduplicationId_PerAttempt(event) == event.eventId + event.retryCount

(* MessageDeduplicationId: event.eventId of the params of sqs.sendMessage *)
messageDeduplicationId(event) == event.eventId

(* publishPaymentEvent(eventType, paymentData): the result, the number of
   sqs.sendMessage calls, the uuids drawn (numbered from the first one this
   call draws) and the deduplication id of every call; a retry sends
   {...event, retryCount: retryCount + 1} *)
publishPaymentEvent(cfg, eventType, q) ==
  IF ~sqsConfigured(cfg)
    THEN [result |-> "sqs-disabled", sends |-> 0, eventType |-> eventType,
          draws |-> 0, eventId |-> 0, correlationId |-> 0, dedup |-> <<>>]
    ELSE LET event == [eventId |-> uuidv4(0), correlationId |-> uuidv4(1),
                       retryCount |-> 0]
             r == sendMessage(cfg, q, 0)
         IN  [result |-> r.result, sends |-> r.sends, eventType |-> eventType,
              draws |-> 2, eventId |-> event.eventId,
              correlationId |-> event.correlationId,
              dedup |-> [i \in 1..r.sends |->
                           messageDeduplicationId(
                             [event EXCEPT !.retryCount = i - 1])]]

NoPublish ==
  [result |-> "none", sends |-> 0, eventType |-> "none", draws |-> 0,
   eventId |-> 0, correlationId |-> 0, dedup |-> <<>>]

(* ---- sendBatchMessages ---- *)
batchSize == 10

(* chunkArray(array, size) *)
RECURSIVE chunkArray(_, _)
chunkArray(array, size) ==
  IF Len(array) = 0 THEN <<>>
  ELSE IF Len(array) <= size THEN <<array>>
  ELSE <<SubSeq(array, 1, size)>>
         \o chunkArray(SubSeq(array, size + 1, Len(array)), size)

(* The queue's answers to the sqs.sendMessage calls made for one event, over
   the two individual sends a batch can make of it: the first k are rejected. *)
EventQueueLen == 2 * (maxRetries + 1)
EventQueueBehaviours ==
  {[i \in 1..EventQueueLen |-> i > k] : k \in {0, 2, maxRetries + 1, EventQueueLen}}

(* the answers left for an event after n calls were made for it *)
answersAfter(q, n) == [i \in 1..(maxRetries + 1) |-> q[n + i]]

(* what a batch publish has done so far: per event the number of times the
   queue accepted it, the number of individual sqs.sendMessage calls and the
   number of sendMessage(event) that gave up after their retries *)
NoBatch(n) ==
  [accepted |-> [e \in 1..n |-> 0], calls |-> [e \in 1..n |-> 0],
   exhausted |-> [e \in 1..n |-> 0],
   batchCalls |-> 0, result |-> "ok"]

(* an individual send whose failure is logged and not raised *)
sendEvent_SwallowsThrow(cfg, b, e, qs) ==
  LET r == sendMessage(cfg, answersAfter(qs[e], b.calls[e]), 0)
  IN  [b EXCEPT !.calls[e] = @ + r.sends,
                !.accepted[e] = @ + (IF r.result = "MessageId" THEN 1 ELSE 0),
                !.exhausted[e] = @ + (IF r.result = "throw" THEN 1 ELSE 0),
                !.result = "ok"]

(* await this.sendMessage(event) for one event of a batch *)
sendEvent(cfg, b, e, qs) ==
  LET r == sendMessage(cfg, answersAfter(qs[e], b.calls[e]), 0)
  IN  [b EXCEPT !.calls[e] = @ + r.sends,
                !.accepted[e] = @ + (IF r.result = "MessageId" THEN 1 ELSE 0),
                !.exhausted[e] = @ + (IF r.result = "throw" THEN 1 ELSE 0),
                !.result = IF r.result = "throw" THEN "throw" ELSE "ok"]

(* for (const event of events) { await this.sendMessage(event) }: the first
   send that throws ends the loop *)
RECURSIVE sendEach(_, _, _, _)
sendEach(cfg, b, events, qs) ==
  IF events = <<>> THEN b
  ELSE LET b1 == sendEvent(cfg, b, Head(events), qs)
       IN  IF b1.result = "throw" THEN b1
           ELSE sendEach(cfg, b1, Tail(events), qs)

(* sendMessageBatch(events); batchResult is the queue's answer to
   sqs.sendMessageBatch: rejected, or resolved with the entries in Failed *)
sendMessageBatch(cfg, b, events, batchResult, qs) ==
  IF ~sqsConfigured(cfg) THEN b
  ELSE
    LET called == [b EXCEPT !.batchCalls = @ + 1]
        inBatch == {events[i] : i \in DOMAIN events}
        failed == batchResult.Failed \cap inBatch
        taken == [called EXCEPT !.accepted =
                    [e \in DOMAIN @ |->
                       IF e \in inBatch \ failed THEN @[e] + 1 ELSE @[e]]]
        failedEvents == SelectSeq(events, LAMBDA e : e \in failed)
        resent == sendEach(cfg, taken, failedEvents, qs)
    IN  IF batchResult.rejected
          THEN sendEach(cfg, called, events, qs)
        ELSE IF resent.result = "throw"
          THEN sendEach(cfg, [resent EXCEPT !.result = "ok"], events, qs)
        ELSE resent

(* for (const batch of batches) { await this.sendMessageBatch(batch) } *)
RECURSIVE sendBatches(_, _, _, _, _)
sendBatches(cfg, b, batches, batchResult, qs) ==
  IF batches = <<>> THEN b
  ELSE LET b1 == sendMessageBatch(cfg, b, Head(batches), batchResult, qs)
       IN  IF b1.result = "throw" THEN b1
           ELSE sendBatches(cfg, b1, Tail(batches), batchResult, qs)

(* sendBatchMessages(events), the events being 1..n *)
sendBatchMessages(cfg, n, batchResult, qs) ==
  IF n = 0 THEN NoBatch(n)
  ELSE sendBatches(cfg, NoBatch(n), chunkArray([i \in 1..n |-> i], batchSize),
                   batchResult, qs)

(* --------------------------- PaymentService ---------------------------- *)
NewPayment(merchantId, amount, t) ==
  [merchantId |-> merchantId, amount |-> amount, status |-> "PENDING",
   gatewayFee |-> 0, platformFee |-> 0, netAmount |-> NullAmount,
   gatewayReference |-> Undef, externalId |-> Undef,
   failureCode |-> Undef, failureReason |-> Undef,
   initiatedAt |-> t, processedAt |-> NullTime, completedAt |-> NullTime,
   failedAt |-> NullTime,
   webhookAttempts |-> 0, webhookDelivered |-> FALSE, lastWebhookAt |-> NullTime]

(* repository.update skips the properties that are undefined *)
setIfDefined(old, new) == IF new = Undef THEN old ELSE new

(* What findOne returns when every criterion of its where clause is undefined:
   the ORM drops undefined criteria, and what it does with the clause that is
   left empty is not fixed by this code (no row, any row, or a failed query). *)
QueryError == "query_error"
findWithEmptyWhere(pays) == DOMAIN pays \cup {Null, QueryError}

(* what findOne may return for the rows that satisfy its where clause *)
FindOne(rows) == IF rows = {} THEN {Null} ELSE rows

(* what a lookup returned: a row, no row, or a failed query *)
IsRow(found) == found \notin {Null, QueryError}
lookupOf(found) ==
  IF found = Null THEN "null" ELSE IF found = QueryError THEN "error" ELSE "row"

(* paymentRepository.findOne({where: [{reference, merchantId?}]}) of
   updatePaymentStatus *)
findByReference(pays, reference, merchantId) ==
  IF reference = Undef /\ merchantId = Undef
    THEN findWithEmptyWhere(pays)
    ELSE FindOne({r \in DOMAIN pays :
                    /\ (reference = Undef \/ r = reference)
                    /\ (merchantId = Undef \/ pays[r].merchantId = merchantId)})

(* the event published for a status: switch of updatePaymentStatus *)
eventTypeOf(status) ==
  CASE status = "COMPLETED" -> "PAYMENT_COMPLETED"
    [] status = "FAILED" -> "PAYMENT_FAILED"
    [] status = "CANCELLED" -> "PAYMENT_CANCELLED"
    [] status \in {"REFUNDED", "PARTIALLY_REFUNDED"} -> "PAYMENT_REFUNDED"
    [] OTHER -> status

updateMerchantStatistics_CountsTwice(mers, merchantId, amount, t) ==
  [mers EXCEPT ![merchantId] =
     [@ EXCEPT !.totalProcessedAmount = @ + amount + amount,
               !.totalTransactions = @ + 2,
               !.lastTransactionAt = t]]

(* updateMerchantStatistics(merchantId, amount) *)
updateMerchantStatistics(mers, merchantId, amount, t) ==
  [mers EXCEPT ![merchantId] =
     [@ EXCEPT !.totalProcessedAmount = @ + amount,
               !.totalTransactions = @ + 1,
               !.lastTransactionAt = t]]

(* an update that stamps processedAt again when the payment completes *)
applyUpdate_RestampsProcessed(row, payment, dto, t) ==
  LET base == [row EXCEPT
                 !.status = dto.status,
                 !.gatewayReference = setIfDefined(@, dto.gatewayReference),
                 !.failureCode = setIfDefined(@, dto.failureCode),
                 !.failureReason = setIfDefined(@, dto.failureReason)]
  IN  CASE dto.status = "PROCESSING" -> [base EXCEPT !.processedAt = t]
        [] dto.status = "COMPLETED" ->
             [base EXCEPT !.completedAt = t, !.processedAt = t,
                          !.netAmount = calculateNetAmount(payment)]
        [] dto.status \in {"FAILED", "CANCELLED", "EXPIRED"} ->
             [base EXCEPT !.failedAt = t]
        [] OTHER -> base

(* the row written by paymentRepository.update(payment.id, updateData) *)
applyUpdate(row, payment, dto, t) ==
  LET base == [row EXCEPT
                 !.status = dto.status,
                 !.gatewayReference = setIfDefined(@, dto.gatewayReference),
                 !.failureCode = setIfDefined(@, dto.failureCode),
                 !.failureReason = setIfDefined(@, dto.failureReason)]
  IN  CASE dto.status = "PROCESSING" -> [base EXCEPT !.processedAt = t]
        [] dto.status = "COMPLETED" ->
             [base EXCEPT !.completedAt = t,
                          !.netAmount = calculateNetAmount(payment)]
        [] dto.status \in {"FAILED", "CANCELLED", "EXPIRED"} ->
             [base EXCEPT !.failedAt = t]
        [] OTHER -> base

publishStatusEvent_Rethrows(cfg, status, q) ==
  publishPaymentEvent(cfg, eventTypeOf(status), q)

(* try { publish... } catch { console.error } of updatePaymentStatus *)
publishStatusEvent(cfg, status, q) ==
  LET p == publishPaymentEvent(cfg, eventTypeOf(status), q)
  IN  [p EXCEPT !.result = IF @ = "throw" THEN "swallowed" ELSE @]

updatePaymentStatus_WritesBeforeCheck(pays, mers, cfg, found, dto, t, q) ==
  IF found \in {Null, QueryError}
    THEN [payments |-> pays, merchants |-> mers,
          upd |-> IF found = Null THEN "not_found" ELSE "query_error",
          ref |-> Null, from |-> "none", to |-> dto.status, pub |-> NoPublish]
    ELSE
      LET payment == pays[found]
          pays2 == [pays EXCEPT ![found] = applyUpdate(@, payment, dto, t)]
          mers2 == IF dto.status = "COMPLETED"
                     THEN updateMerchantStatistics(mers, payment.merchantId,
                                                   payment.amount, t)
                     ELSE mers
          pub == publishStatusEvent(cfg, dto.status, q)
      IN  IF ~isValidStatusTransition(payment.status, dto.status)
            THEN [payments |-> pays2, merchants |-> mers,
                  upd |-> "invalid_transition", ref |-> found,
                  from |-> payment.status, to |-> dto.status, pub |-> NoPublish]
            ELSE [payments |-> pays2, merchants |-> mers2, upd |-> "ok",
                  ref |-> found, from |-> payment.status, to |-> dto.status,
                  pub |-> pub]

(* updatePaymentStatus(reference, dto, merchantId), `found` being what the
   findOne returned: the tables after the call and what the call did. *)
updatePaymentStatus(pays, mers, cfg, found, dto, t, q) ==
  IF found \in {Null, QueryError}
    THEN [payments |-> pays, merchants |-> mers,
          upd |-> IF found = Null THEN "not_found" ELSE "query_error",
          ref |-> Null, from |-> "none", to |-> dto.status, pub |-> NoPublish]
    ELSE
      LET payment == pays[found] IN
      IF ~isValidStatusTransition(payment.status, dto.status)
        THEN [payments |-> pays, merchants |-> mers,
              upd |-> "invalid_transition", ref |-> found,
              from |-> payment.status, to |-> dto.status, pub |-> NoPublish]
        ELSE
          LET pays2 == [pays EXCEPT ![found] = applyUpdate(@, payment, dto, t)]
              mers2 == IF dto.status = "COMPLETED"
                         THEN updateMerchantStatistics(mers, payment.merchantId,
                                                       payment.amount, t)
                         ELSE mers
              pub == publishStatusEvent(cfg, dto.status, q)
          IN  [payments |-> pays2, merchants |-> mers2,
               upd |-> IF pub.result = "throw" THEN "publish_error" ELSE "ok",
               ref |-> found, from |-> payment.status, to |-> dto.status,
               pub |-> pub]

(* initializePayment(merchantId, dto): dto carries no paymentMethodId *)
initializePayment(pays, mers, cfg, merchantId, amount, reference, t, q) ==
  IF merchantId \notin DOMAIN mers
    THEN [payments |-> pays, outcome |-> "not_found", pub |-> NoPublish]
    ELSE IF mers[merchantId].status # "ACTIVE"
      THEN [payments |-> pays, outcome |-> "forbidden", pub |-> NoPublish]
      ELSE
        LET pub == publishPaymentEvent(cfg, "PAYMENT_INITIATED", q)
        IN  [payments |-> pays @@ (reference :> NewPayment(merchantId, amount, t)),
             outcome |-> "ok",
             pub |-> [pub EXCEPT !.result = IF @ = "throw" THEN "swallowed" ELSE @]]

(* an operation that did not call updatePaymentStatus *)
NoUpdate(pays, mers) ==
  [payments |-> pays, merchants |-> mers, upd |-> "none", ref |-> Null,
   from |-> "none", to |-> "none", pub |-> NoPublish]

(* --------------------- signatures and their inputs --------------------- *)
(* what is signed: the raw body, or for Stripe "<t>.<rawBody>" *)
bodyMsg(rawBody) == <<rawBody>>
stripeMsg(age, rawBody) == <<age, rawBody>>

(* a hex digest: the HMAC of msg under secret *)
Hmac(alg, secret, msg) == [alg |-> alg, secret |-> secret, msg |-> msg]
digestBytes(alg) == IF alg = "sha512" THEN 64 ELSE 32

(* signature header values: absent; a hex digest behind a prefix; the Stripe
   form t=<now - age>,v1=<hex>; a text that is no hex *)
NoSignature == [kind |-> "undefined"]
HexSignature(prefix, digest) ==
  [kind |-> "hex", prefix |-> prefix, digest |-> digest]
StripeSignature(age, v1) == [kind |-> "stripe", age |-> age, v1 |-> v1]
TextSignature == [kind |-> "text"]
(* a hex digest followed by characters that are no hex digits *)
HexThenText(digest) == [kind |-> "hex_text", digest |-> digest]
(* Stripe headers lacking a segment: v1=<hex> alone, t=<now - age> alone *)
StripeNoT(v1) == [kind |-> "stripe_no_t", v1 |-> v1]
StripeNoV1(age) == [kind |-> "stripe_no_v1", age |-> age]
(* the Stripe form whose t is a text that is no number: t=<text>,v1=<hex>,
   and what is signed for it, "<text>.<rawBody>" *)
NaNText == "not-a-number"
StripeTextT(v1) == [kind |-> "stripe_text_t", v1 |-> v1]
stripeTextMsg(rawBody) == <<NaNText, ".", rawBody>>

(* x-timestamp header: absent, <now - age>, or a text that is no number *)
NoTimestamp == [kind |-> "undefined"]
Timestamp(age) == [kind |-> "int", age |-> age]
TextTimestamp == [kind |-> "nan"]

(* configService.get('app.webhookSecret') || 'default-webhook-secret' *)
webhookSecret == "app-webhook-secret"
tolerance == 300

Abs(n) == IF n < 0 THEN 0 - n ELSE n

(* signature.startsWith('sha256=') ? signature.substring(7) : signature *)
receivedSignature(signature) ==
  IF signature.kind = "hex" /\ signature.prefix = "sha256="
    THEN [signature EXCEPT !.prefix = ""]
    ELSE signature

(* Buffer.from(s, 'hex'): decoding stops at the first character that is no
   hex digit *)
bufferFromHex(s) ==
  IF (s.kind = "hex" /\ s.prefix = "") \/ s.kind = "hex_text"
    THEN [len |-> digestBytes(s.digest.alg), digest |-> s.digest]
    ELSE [len |-> 0, digest |-> Hmac("none", "none", <<>>)]

(* verifyWebhookSignature(rawBody, signature, timestamp) of the payments
   module: any exception inside is caught and answers false *)
verifyWebhookSignature(rawBody, signature, timestamp) ==
  IF signature.kind = "undefined"
    THEN FALSE
    ELSE
      LET expected == bufferFromHex(HexSignature("", Hmac("sha256", webhookSecret, bodyMsg(rawBody))))
          received == bufferFromHex(receivedSignature(signature))
      IN  IF expected.len # received.len
            THEN FALSE
            ELSE IF timestamp.kind = "int" /\ Abs(timestamp.age) > tolerance
              THEN FALSE
              ELSE expected = received

(* ---------------------- WebhookService (payments) ---------------------- *)
lowerCase(s) ==
  CASE s = "PAID" -> "paid"
    [] s = "STRIPE" -> "stripe"
    [] s = "PAYMENT.FAILED" -> "payment.failed"
    [] OTHER -> s

statusMap ==
  [succeeded |-> "COMPLETED", completed |-> "COMPLETED", success |-> "COMPLETED",
   successful |-> "COMPLETED", paid |-> "COMPLETED",
   failed |-> "FAILED", declined |-> "FAILED", error |-> "FAILED",
   pending |-> "PENDING", processing |-> "PROCESSING",
   in_progress |-> "PROCESSING",
   cancelled |-> "CANCELLED", canceled |-> "CANCELLED",
   refunded |-> "REFUNDED", partially_refunded |-> "PARTIALLY_REFUNDED",
   disputed |-> "DISPUTED", chargeback |-> "DISPUTED", expired |-> "EXPIRED"]

eventMap ==
  ("payment.succeeded" :> "COMPLETED") @@ ("payment.completed" :> "COMPLETED")
  @@ ("payment.failed" :> "FAILED") @@ ("payment.cancelled" :> "CANCELLED")
  @@ ("payment.refunded" :> "REFUNDED") @@ ("charge.succeeded" :> "COMPLETED")
  @@ ("charge.failed" :> "FAILED") @@ ("charge.dispute.created" :> "DISPUTED")

TypeError == "TypeError"

(* map[key] of an object literal: an own entry, else what Object.prototype
   holds under a lower-case name (constructor, __proto__), else undefined *)
ObjectPrototypeKeys == {"constructor", "__proto__"}
InheritedMember == "[inherited member]"
memberOf(map, key) ==
  IF key \in DOMAIN map THEN map[key]
  ELSE IF key \in ObjectPrototypeKeys THEN InheritedMember
  ELSE Undef

(* mapGatewayStatusToInternal(gatewayStatus, event); undefined.toLowerCase()
   raises a TypeError *)
mapGatewayStatusToInternal(gatewayStatus, event) ==
  IF event \notin {Undef, ""} /\ memberOf(eventMap, lowerCase(event)) # Undef
    THEN memberOf(eventMap, lowerCase(event))
    ELSE IF gatewayStatus = Undef
      THEN TypeError
      ELSE IF memberOf(statusMap, lowerCase(gatewayStatus)) # Undef
        THEN memberOf(statusMap, lowerCase(gatewayStatus))
        ELSE "PROCESSING"

(* findPaymentByReference(reference, gatewayReference) *)
findPaymentByReference(pays, reference, gatewayReference) ==
  IF reference = Undef /\ gatewayReference \in {Undef, ""}
    THEN findWithEmptyWhere(pays)
    ELSE FindOne({r \in DOMAIN pays :
                    \/ (reference # Undef /\ r = reference)
                    \/ /\ gatewayReference \notin {Undef, ""}
                       /\ \/ pays[r].gatewayReference = gatewayReference
                          \/ pays[r].externalId = gatewayReference})

(* updateWebhookDelivery(paymentId) *)
updateWebhookDelivery(pays, id, t) ==
  [pays EXCEPT ![id] = [@ EXCEPT !.webhookAttempts = @ + 1,
                                 !.lastWebhookAt = t,
                                 !.webhookDelivered = TRUE]]

(* a || b on strings *)
orElse(a, b) == IF a \in {Undef, ""} THEN b ELSE a

(* a || b on amounts: undefined (NullAmount) and 0 both give b *)
feeOrElse(a, b) == IF a > 0 THEN a ELSE b

(* how an operation ended: outcome; what its payment lookup returned (none: it
   made no lookup); what became of the signature (none: it checks none) *)
Ended(pays, mers, outcome, lookup, sig) ==
  NoUpdate(pays, mers) @@ [outcome |-> outcome, lookup |-> lookup, sig |-> sig]

(* how a webhook operation ends after its call of updatePaymentStatus *)
Updated(u, outcome) ==
  u @@ [outcome |-> outcome, lookup |-> "row", sig |-> "accepted"]

(* processWebhook after its signature check: the lookup, the status mapping,
   the update and the delivery tracking, `found` being what
   findPaymentByReference returned *)
applyWebhook(pays, mers, cfg, payload, found, t, q) ==
  IF found = Null
    THEN Ended(pays, mers, "not_found", "null", "accepted")
  ELSE IF found = QueryError
    THEN Ended(pays, mers, "bad_request", "error", "accepted")
  ELSE
    LET payment == pays[found]
        internalStatus == mapGatewayStatusToInternal(payload.status, payload.event)
    IN  IF internalStatus = TypeError
          THEN Ended(pays, mers, "bad_request", "row", "accepted")
          ELSE
            LET updateData ==
                  [status |-> internalStatus,
                   gatewayReference |-> orElse(payload.gatewayReference,
                                               payment.gatewayReference),
                   failureCode |-> payload.failureCode,
                   failureReason |-> payload.failureMessage,
                   gatewayFee |-> feeOrElse(payload.gatewayFee,
                                            payment.gatewayFee)]
                u == updatePaymentStatus(pays, mers, cfg, found, updateData, t, q)
            IN  IF u.upd = "ok"
                  THEN Updated([u EXCEPT !.payments =
                                  updateWebhookDelivery(@, found, t)], "ok")
                  ELSE Updated(u, IF u.upd = "not_found" THEN "not_found"
                                  ELSE "bad_request")

processWebhook_VerifiesLast(pays, mers, cfg, payload, rawBody, signature, timestamp, found, t, q) ==
  LET r == applyWebhook(pays, mers, cfg, payload, found, t, q)
  IN  IF verifyWebhookSignature(rawBody, signature, timestamp)
        THEN r
        ELSE [r EXCEPT !.outcome = "unauthorized", !.sig = "rejected"]

processWebhook_CreatesMissing(pays, mers, cfg, payload, rawBody, signature, timestamp, found, t, q) ==
  IF ~verifyWebhookSignature(rawBody, signature, timestamp)
    THEN Ended(pays, mers, "unauthorized", "none", "rejected")
  ELSE IF found = Null /\ payload.reference \notin DOMAIN pays
    THEN Ended(pays @@ (payload.reference :> NewPayment("m1", 0, t)), mers,
               "ok", "null", "accepted")
  ELSE applyWebhook(pays, mers, cfg, payload, found, t, q)

(* processWebhook(payload, rawBody, signature, timestamp) *)
processWebhook(pays, mers, cfg, payload, rawBody, signature, timestamp, found, t, q) ==
  IF ~verifyWebhookSignature(rawBody, signature, timestamp)
    THEN Ended(pays, mers, "unauthorized", "none", "rejected")
    ELSE applyWebhook(pays, mers, cfg, payload, found, t, q)

(* headers of a request: the signature sent under the given header name *)
Headers(name, signature) ==
  [h \in {"stripe-signature", "x-paystack-signature", "verif-hash"} |->
     IF h = name THEN signature ELSE NoSignature]

(* processStripeWebhook / processPaystackWebhook / processFlutterwaveWebhook:
   the WebhookPayloadDto each builds from its gateway's payload *)
stripeWebhookPayload(payload) ==
  [event |-> payload.type,
   reference |-> orElse(payload.reference, payload.id),
   status |-> payload.status,
   gatewayReference |-> payload.id,
   failureCode |-> payload.errorCode,
   failureMessage |-> payload.errorMessage,
   gatewayFee |-> NullAmount]

paystackWebhookPayload(payload) ==
  [event |-> payload.event, reference |-> payload.reference,
   status |-> payload.status, gatewayReference |-> payload.id,
   failureCode |-> Undef, failureMessage |-> Undef,
   gatewayFee |-> IF payload.fees > 0 THEN payload.fees \div 100 ELSE NullAmount]

flutterwaveWebhookPayload(payload) ==
  [event |-> payload.event, reference |-> payload.tx_ref,
   status |-> payload.status, gatewayReference |-> payload.id,
   failureCode |-> Undef, failureMessage |-> Undef,
   gatewayFee |-> payload.app_fee]

gatewayHeader(gateway) ==
  CASE gateway = "stripe" -> "stripe-signature"
    [] gateway = "paystack" -> "x-paystack-signature"
    [] gateway = "flutterwave" -> "verif-hash"

gatewayWebhookPayload(gateway, payload) ==
  CASE gateway = "stripe" -> stripeWebhookPayload(payload)
    [] gateway = "paystack" -> paystackWebhookPayload(payload)
    [] gateway = "flutterwave" -> flutterwaveWebhookPayload(payload)

(* the reference and gatewayReference the gateway's lookup will use *)
gatewayLookup(pays, gateway, payload) ==
  IF lowerCase(gateway) \in {"stripe", "paystack", "flutterwave"}
    THEN LET w == gatewayWebhookPayload(lowerCase(gateway), payload)
         IN  findPaymentByReference(pays, w.reference, w.gatewayReference)
    ELSE {Null}

(* processGatewaySpecificWebhook(gateway, payload, rawBody, headers) *)
processGatewaySpecificWebhook(pays, mers, cfg, gateway, payload, rawBody, headers, found, t, q) ==
  IF lowerCase(gateway) \notin {"stripe", "paystack", "flutterwave"}
    THEN Ended(pays, mers, "bad_request", "none", "none")
    ELSE
      LET signature == headers[gatewayHeader(lowerCase(gateway))]
      IN  IF signature.kind = "undefined"
            THEN Ended(pays, mers, "unauthorized", "none", "missing")
            ELSE processWebhook(pays, mers, cfg,
                                gatewayWebhookPayload(lowerCase(gateway), payload),
                                rawBody, signature, NoTimestamp, found, t, q)

(* simulateWebhook without its check of the payment's status *)
simulateWebhook_SkipsPendingCheck(pays, mers, cfg, simulationDto, found, t, q) ==
  IF found = Null
    THEN Ended(pays, mers, "not_found", "null", "none")
  ELSE IF found = QueryError
    THEN Ended(pays, mers, "bad_request", "error", "none")
  ELSE
    LET internalStatus ==
          mapGatewayStatusToInternal(orElse(simulationDto.status, "completed"),
                                     Undef)
        updateData ==
          [status |-> internalStatus,
           gatewayReference |-> orElse(simulationDto.gatewayReference, "sim_now"),
           failureCode |-> Undef,
           failureReason |-> simulationDto.failureReason]
        u == updatePaymentStatus(pays, mers, cfg, found, updateData, t, q)
    IN  [(IF u.upd = "ok"
            THEN Updated([u EXCEPT !.payments =
                            updateWebhookDelivery(@, found, t)], "ok")
            ELSE Updated(u, IF u.upd = "not_found" THEN "not_found"
                            ELSE "bad_request"))
         EXCEPT !.sig = "none"]

(* simulateWebhook(simulationDto), `found` being what findOne returned *)
simulateWebhook(pays, mers, cfg, simulationDto, found, t, q) ==
  IF found = Null
    THEN Ended(pays, mers, "not_found", "null", "none")
  ELSE IF found = QueryError
    THEN Ended(pays, mers, "bad_request", "error", "none")
  ELSE IF pays[found].status # "PENDING"
    THEN Ended(pays, mers, "bad_request", "row", "none")
  ELSE
    LET targetStatus == orElse(simulationDto.status, "completed")
        internalStatus == mapGatewayStatusToInternal(targetStatus, Undef)
        updateData ==
          [status |-> internalStatus,
           gatewayReference |-> orElse(simulationDto.gatewayReference, "sim_now"),
           failureCode |-> Undef,
           failureReason |-> simulationDto.failureReason]
        u == updatePaymentStatus(pays, mers, cfg, found, updateData, t, q)
    IN  [(IF u.upd = "ok"
            THEN Updated([u EXCEPT !.payments =
                            updateWebhookDelivery(@, found, t)], "ok")
            ELSE Updated(u, IF u.upd = "not_found" THEN "not_found"
                            ELSE "bad_request"))
         EXCEPT !.sig = "none"]

(* ------------------- WebhookService (webhooks module) ------------------ *)
(* what paymentMethodRepository.findOne({type: gateway, status: ACTIVE})
   returned, with the webhookSecret property the service reads from it *)
NoPaymentMethod == [found |-> FALSE, webhookSecret |-> Undef, merchantId |-> Undef]
PaymentMethod(merchantId, secret) ==
  [found |-> TRUE, webhookSecret |-> secret, merchantId |-> merchantId]

stripeTolerance == 300

(* verifyStripeSignature(rawBody, signature, secret): exceptions are caught *)
verifyStripeSignature(rawBody, signature, secret) ==
  IF signature.kind \notin {"stripe", "stripe_text_t"}
    THEN "false"
  ELSE IF signature.kind = "stripe" /\ Abs(signature.age) > stripeTolerance
    THEN "false"
  ELSE IF secret = Undef
    THEN "false"
  ELSE IF signature.v1 =
            Hmac("sha256", secret,
                 IF signature.kind = "stripe"
                   THEN stripeMsg(signature.age, rawBody)
                   ELSE stripeTextMsg(rawBody))
    THEN "true"
  ELSE "false"

(* verifyPaystackSignature(rawBody, signature, secret): createHmac throws on
   an undefined key and nothing catches it here *)
verifyPaystackSignature(rawBody, signature, secret) ==
  IF secret = Undef
    THEN TypeError
  ELSE IF HexSignature("", Hmac("sha512", secret, bodyMsg(rawBody))) = signature
    THEN "true"
  ELSE "false"

(* verifyFlutterwaveSignature(rawBody, signature, secret) *)
verifyFlutterwaveSignature(rawBody, signature, secret) ==
  IF secret = Undef
    THEN TypeError
  ELSE IF HexSignature("", Hmac("sha256", secret, bodyMsg(rawBody))) = signature
    THEN "true"
  ELSE "false"

(* verifyWebhookSignature(payload, signature, secret, gateway) of the webhooks
   module; rawBody is JSON.stringify(payload) *)
gatewayVerifyWebhookSignature(rawBody, signature, secret, gateway) ==
  CASE gateway = "stripe" -> verifyStripeSignature(rawBody, signature, secret)
    [] gateway = "paystack" -> verifyPaystackSignature(rawBody, signature, secret)
    [] gateway = "flutterwave" ->
         verifyFlutterwaveSignature(rawBody, signature, secret)
    [] OTHER -> "true"

Extracted(error, reference, status, externalId) ==
  [error |-> error, reference |-> reference, status |-> status,
   externalId |-> externalId]
ExtractFailed(error) == Extracted(error, Undef, Undef, Undef)

extractStripeData(payload) ==
  IF ~payload.hasData
    THEN ExtractFailed(TypeError)
  ELSE IF payload.payment_reference \in {Undef, ""}
    THEN ExtractFailed("Error")
  ELSE Extracted("none", payload.payment_reference,
                 IF payload.type = "payment_intent.succeeded"
                   THEN "COMPLETED" ELSE "FAILED",
                 payload.id)

extractPaystackData(payload) ==
  IF ~payload.hasData
    THEN ExtractFailed(TypeError)
    ELSE Extracted("none", payload.reference,
                   IF payload.event = "charge.success"
                     THEN "COMPLETED" ELSE "FAILED",
                   payload.id)

extractFlutterwaveData(payload) ==
  IF ~payload.hasData \/ payload.id = Undef
    THEN ExtractFailed(TypeError)
    ELSE Extracted("none", payload.tx_ref,
                   IF payload.event = "charge.completed"
                     THEN "COMPLETED" ELSE "FAILED",
                   payload.id)

(* an extraction that reads an unsupported gateway's payload as Paystack's *)
extractPaymentDataFromWebhook_DefaultsToPaystack(payload, gateway) ==
  CASE gateway = "stripe" -> extractStripeData(payload)
    [] gateway = "flutterwave" -> extractFlutterwaveData(payload)
    [] OTHER -> extractPaystackData(payload)

extractPaymentDataFromWebhook(payload, gateway) ==
  CASE gateway = "stripe" -> extractStripeData(payload)
    [] gateway = "paystack" -> extractPaystackData(payload)
    [] gateway = "flutterwave" -> extractFlutterwaveData(payload)
    [] OTHER -> ExtractFailed("Error")

(* the update both entry styles of the webhooks module make *)
gatewayUpdate(pays, mers, cfg, found, status, externalId, t, q, onOther) ==
  LET u == updatePaymentStatus(pays, mers, cfg, found,
                               [status |-> status, gatewayReference |-> externalId,
                                failureCode |-> Undef, failureReason |-> Undef],
                               t, q)
  IN  u @@ [outcome |-> CASE u.upd = "ok" -> "ok"
                          [] u.upd = "not_found" -> "not_found"
                          [] u.upd = "invalid_transition" -> "bad_request"
                          [] OTHER -> onOther,
            lookup |-> lookupOf(found), sig |-> "accepted"]

(* processWebhook(webhookDto) of the webhooks module: NotFound and BadRequest
   are raised, any other error is answered with success: false *)
gatewayProcessWebhook(pays, mers, cfg, webhookDto, rawBody, paymentMethod, found, t, q) ==
  IF ~paymentMethod.found
    THEN Ended(pays, mers, "not_found", "none", "none")
    ELSE
      LET v == gatewayVerifyWebhookSignature(rawBody, webhookDto.signature,
                                             paymentMethod.webhookSecret,
                                             webhookDto.gateway)
          d == extractPaymentDataFromWebhook(webhookDto.payload, webhookDto.gateway)
      IN  IF v = TypeError
            THEN Ended(pays, mers, "failed_response", "none", "throw")
          ELSE IF v = "false"
            THEN Ended(pays, mers, "invalid_signature", "none", "rejected")
          ELSE IF d.error # "none"
            THEN Ended(pays, mers, "failed_response", "none", "accepted")
          ELSE gatewayUpdate(pays, mers, cfg, found, d.status, d.externalId, t, q,
                             "failed_response")

(* processStripeWebhook(payload, signature) of the webhooks module *)
processStripeWebhook(pays, mers, cfg, payload, rawBody, signature, paymentMethod, found, t, q) ==
  IF ~paymentMethod.found
    THEN Ended(pays, mers, "not_found", "none", "none")
  ELSE IF gatewayVerifyWebhookSignature(rawBody, signature,
                                        paymentMethod.webhookSecret, "stripe")
          # "true"
    THEN Ended(pays, mers, "invalid_signature", "none", "rejected")
  ELSE IF payload.type \notin {"payment_intent.succeeded",
                               "payment_intent.payment_failed"}
    THEN Ended(pays, mers, "unsupported_event", "none", "accepted")
  ELSE IF ~payload.hasData
    THEN Ended(pays, mers, "error", "none", "accepted")
  ELSE IF payload.payment_reference \in {Undef, ""}
    THEN Ended(pays, mers, "bad_request", "none", "accepted")
  ELSE gatewayUpdate(pays, mers, cfg, found,
                     IF payload.type = "payment_intent.succeeded"
                       THEN "COMPLETED" ELSE "FAILED",
                     payload.id, t, q, "error")

(* processPaystackWebhook(payload, signature) of the webhooks module *)
processPaystackWebhook(pays, mers, cfg, payload, rawBody, signature, paymentMethod, found, t, q) ==
  LET v == gatewayVerifyWebhookSignature(rawBody, signature,
                                         paymentMethod.webhookSecret, "paystack")
  IN  IF ~paymentMethod.found
        THEN Ended(pays, mers, "not_found", "none", "none")
      ELSE IF v = TypeError
        THEN Ended(pays, mers, "error", "none", "throw")
      ELSE IF v = "false"
        THEN Ended(pays, mers, "invalid_signature", "none", "rejected")
      ELSE IF payload.event \notin {"charge.success", "charge.failed"}
        THEN Ended(pays, mers, "unsupported_event", "none", "accepted")
      ELSE IF ~payload.hasData
        THEN Ended(pays, mers, "error", "none", "accepted")
      ELSE gatewayUpdate(pays, mers, cfg, found,
                         IF payload.event = "charge.success"
                           THEN "COMPLETED" ELSE "FAILED",
                         payload.id, t, q, "error")

(* ------------------------- what an operation did ----------------------- *)
(* op: the entrypoint; outcome: how it ended; lookup: what its payment lookup
   returned (none: it made no lookup); upd, ref, from, to: what its call of
   updatePaymentStatus did; pub: the event handed to the publisher. *)
Report(op, outcome, lookup, sig, r) ==
  [op |-> op, outcome |-> outcome, lookup |-> lookup, sig |-> sig,
   upd |-> r.upd, ref |-> r.ref, from |-> r.from, to |-> r.to, pub |-> r.pub]

(* what a gateway's webhook carried: its event type and its payment
   reference (Stripe: data.object.metadata, Paystack: data.reference,
   Flutterwave: data.tx_ref) *)
payloadEvent(gateway, payload) ==
  IF gateway = "stripe" THEN payload.type ELSE payload.event

payloadReference(gateway, payload) ==
  CASE gateway = "stripe" ->
         IF payload.payment_reference \notin {Undef, ""}
           THEN payload.payment_reference ELSE payload.reference
    [] gateway = "flutterwave" -> payload.tx_ref
    [] OTHER -> payload.reference

GatewayInput(gateway, payload) ==
  [gateway |-> gateway, event |-> payloadEvent(gateway, payload),
   reference |-> payloadReference(gateway, payload),
   paymentReference |-> IF gateway = "stripe"
                          THEN payload.payment_reference ELSE Undef,
   dataStatus |-> payload.status,
   hasData |-> payload.hasData]

(* no request is being answered *)
NoReport ==
  [op |-> "none", outcome |-> "none", lookup |-> "none", sig |-> "none",
   upd |-> "none", ref |-> Null, from |-> "none", to |-> "none",
   pub |-> NoPublish]

(* how a call of updatePaymentStatus ends for its caller *)
updOutcome(upd) ==
  CASE upd = "ok" -> "ok"
    [] upd = "not_found" -> "not_found"
    [] upd = "invalid_transition" -> "bad_request"
    [] OTHER -> "error"

(* a handler that wrote a Date advances the clock *)
clockAfter(t, wrote) == IF wrote THEN t + 1 ELSE t

(* the queue is only called for a payment that exists: one behaviour is enough
   otherwise *)
QueueFor(publishes) ==
  IF publishes THEN HandlerQueueBehaviours
  ELSE {CHOOSE q \in HandlerQueueBehaviours : q[1]}

(* ---------------------------- webhook inputs -------------------------- *)
(* the body a request carries, and another one a signature may be made for *)
RawBody == "body"
OtherBody == "other-body"
AttackerSecret == "attacker-secret"

(* signatures for the endpoints of the payments module: the one its verifier
   expects, bare and behind sha256=, and ones made with another key, for
   another body, under another gateway's scheme, or not made at all *)
ValidSignature == HexSignature("", Hmac("sha256", webhookSecret, bodyMsg(RawBody)))
SignatureInputs ==
  {NoSignature, TextSignature, ValidSignature,
   HexSignature("sha256=", Hmac("sha256", webhookSecret, bodyMsg(RawBody))),
   HexSignature("", Hmac("sha256", AttackerSecret, bodyMsg(RawBody))),
   HexSignature("", Hmac("sha256", webhookSecret, bodyMsg(OtherBody))),
   HexSignature("", Hmac("sha512", webhookSecret, bodyMsg(RawBody))),
   StripeSignature(0, Hmac("sha256", webhookSecret, stripeMsg(0, RawBody)))}

(* x-signature and x-timestamp of a request to /webhooks/payment *)
AuthInputs ==
  {<<sig, NoTimestamp>> : sig \in SignatureInputs}
  \cup {<<ValidSignature, ts>> :
          ts \in {Timestamp(0), Timestamp(tolerance + 1),
                  Timestamp(0 - (tolerance + 1)), TextTimestamp}}

(* reference and gatewayReference of a payload *)
PayloadRefs ==
  {<<RefNames[1], "pi_1">>, <<RefNames[1], Undef>>, <<"PAY_NONEXISTENT", "pi_1">>,
   <<"PAY_NONEXISTENT", Undef>>, <<Undef, "pi_1">>, <<Undef, Undef>>}
GatewayPayloadRefs ==
  {<<RefNames[1], "pi_1">>, <<"PAY_NONEXISTENT", Undef>>, <<Undef, "pi_1">>,
   <<Undef, Undef>>}

(* event and status of a WebhookPayloadDto *)
EventStatusDefault == <<"payment.received", "completed">>
EventStatusInputs ==
  {<<"payment.received", st>> :
     st \in {"completed", "failed", "pending", "processing", "cancelled",
             "refunded", "partially_refunded", "disputed", "expired",
             "PAID", "unheard-of"}}
  \cup {<<"payment.failed", "completed">>, <<"PAYMENT.FAILED", "completed">>,
        <<"charge.dispute.created", "completed">>,
        <<"payment.received", "constructor">>, <<"constructor", "completed">>}

WebhookRequest(auth, ref, es, failure) ==
  [signature |-> auth[1], timestamp |-> auth[2],
   payload |-> [event |-> es[1], reference |-> ref[1], status |-> es[2],
                gatewayReference |-> ref[2], failureCode |-> failure.code,
                failureMessage |-> failure.reason,
                gatewayFee |-> NullAmount]]

(* the request with the optional gatewayFee of WebhookPayloadDto set *)
WithGatewayFee(request, gatewayFee) ==
  [request EXCEPT !.payload.gatewayFee = gatewayFee]

(* requests to /webhooks/payment: every signature and timestamp with one
   payload, and every payload under the signature the verifier expects *)
WebhookRequests ==
  {WebhookRequest(auth, <<RefNames[1], "pi_1">>, EventStatusDefault, FailureDefault) :
     auth \in AuthInputs}
  \cup {WebhookRequest(<<ValidSignature, NoTimestamp>>, <<RefNames[1], "pi_1">>,
                       es, FailureDefault) : es \in EventStatusInputs}
  \cup {WebhookRequest(<<ValidSignature, NoTimestamp>>, ref, EventStatusDefault,
                       FailureDefault) : ref \in PayloadRefs}
  \cup {WebhookRequest(<<ValidSignature, NoTimestamp>>, <<RefNames[1], Undef>>,
                       <<"payment.received", "failed">>, failure) :
          failure \in FailureInputs}
  \cup {WithGatewayFee(WebhookRequest(<<ValidSignature, NoTimestamp>>,
                                      <<RefNames[1], "pi_1">>,
                                      EventStatusDefault, FailureDefault), 150)}

(* payloads of the gateways *)
StripePayload(type, status, id, reference, payment_reference, hasData) ==
  [type |-> type, status |-> status, id |-> id, reference |-> reference,
   payment_reference |-> payment_reference,
   errorCode |-> IF type = "payment_intent.payment_failed"
                   THEN "card_declined" ELSE Undef,
   errorMessage |-> IF type = "payment_intent.payment_failed"
                      THEN "Your card was declined." ELSE Undef,
   hasData |-> hasData]
(* Paystack reports its fee in kobo as data.fees, Flutterwave as data.app_fee *)
PaystackPayload(event, status, id, reference, hasData) ==
  [event |-> event, status |-> status, id |-> id, reference |-> reference,
   fees |-> IF hasData THEN 15000 ELSE NullAmount,
   hasData |-> hasData]
FlutterwavePayload(event, status, id, tx_ref, hasData) ==
  [event |-> event, status |-> status, id |-> id, tx_ref |-> tx_ref,
   app_fee |-> IF hasData THEN 150 ELSE NullAmount,
   hasData |-> hasData]

StripePayloads ==
  {StripePayload(ts[1], ts[2], "pi_1", RefNames[1], RefNames[1], TRUE) :
     ts \in {<<"payment_intent.succeeded", "succeeded">>,
             <<"payment_intent.payment_failed", "requires_payment_method">>,
             <<"payment_intent.canceled", "canceled">>,
             <<"charge.failed", "failed">>}}
  \cup {StripePayload("payment_intent.succeeded", "succeeded", ri[2], ri[1],
                      ri[1], TRUE) : ri \in GatewayPayloadRefs}
  \cup {StripePayload("customer.created", Undef, Undef, Undef, Undef, FALSE),
        StripePayload("customer.created", Undef, "pi_1", RefNames[1], Undef, TRUE),
        StripePayload("payment_intent.succeeded", Undef, Undef, Undef, Undef, FALSE),
        StripePayload("payment_intent.succeeded", "succeeded", "pi_1",
                      RefNames[1], Undef, TRUE),
        StripePayload("payment_intent.succeeded", "succeeded", "pi_1",
                      Undef, RefNames[1], TRUE)}

PaystackPayloads ==
  {PaystackPayload(es[1], es[2], "pi_1", RefNames[1], TRUE) :
     es \in {<<"charge.success", "success">>, <<"charge.failed", "failed">>,
             <<"transfer.success", "success">>, <<"refund.processed", "refunded">>}}
  \cup {PaystackPayload("charge.success", "success", ri[2], ri[1], TRUE) :
          ri \in GatewayPayloadRefs}
  \cup {PaystackPayload("charge.success", Undef, Undef, Undef, FALSE)}

FlutterwavePayloads ==
  {FlutterwavePayload(es[1], es[2], "pi_1", RefNames[1], TRUE) :
     es \in {<<"charge.completed", "successful">>, <<"charge.completed", "failed">>,
             <<"charge.failed", "failed">>}}
  \cup {FlutterwavePayload("charge.completed", "successful", ri[2], ri[1], TRUE) :
          ri \in GatewayPayloadRefs}
  \cup {FlutterwavePayload("charge.completed", Undef, Undef, Undef, FALSE)}

GatewayPayloads(gateway) ==
  CASE gateway = "stripe" -> StripePayloads
    [] gateway = "paystack" -> PaystackPayloads
    [] gateway = "flutterwave" -> FlutterwavePayloads
    [] OTHER -> {PaystackPayload("charge.success", "success", "pi_1",
                                 RefNames[1], TRUE)}

GatewayRequest(gateway, signature, header, payload) ==
  [gateway |-> gateway, signature |-> signature, header |-> header,
   payload |-> payload]

(* requests to the gateway endpoints: every signature with one payload, and
   every payload under the signature the verifier expects; a request may carry
   its signature under the header of another gateway *)
GatewayRequests ==
  UNION {{GatewayRequest(g, sig, gatewayHeader(g),
                         CHOOSE x \in GatewayPayloads(g) : x.hasData) :
            sig \in SignatureInputs}
         \cup {GatewayRequest(g, ValidSignature, gatewayHeader(g), x) :
                 x \in GatewayPayloads(g)} :
           g \in {"stripe", "paystack", "flutterwave"}}
  \cup {GatewayRequest(g, ValidSignature, "stripe-signature",
                       CHOOSE x \in GatewayPayloads(lowerCase(g)) : x.hasData) :
          g \in {"STRIPE", "paystack", "square"}}

(* the secret a payment method carries in the tests of the webhooks module *)
PmSecret == "pm-secret"
(* each merchant's payment method holds its own webhook secret *)
PmSecretOf(merchantId) ==
  IF merchantId = "m1" THEN PmSecret ELSE "pm-secret-of-m2"

(* the signature gateway g makes for body under secret *)
GatewaySignature(g, secret, body) ==
  CASE g = "stripe" -> StripeSignature(0, Hmac("sha256", secret, stripeMsg(0, body)))
    [] g = "paystack" -> HexSignature("", Hmac("sha512", secret, bodyMsg(body)))
    [] g = "flutterwave" -> HexSignature("", Hmac("sha256", secret, bodyMsg(body)))

GatewaySignatureInputs ==
  {NoSignature, TextSignature,
   StripeSignature(stripeTolerance + 1,
                   Hmac("sha256", PmSecret, stripeMsg(stripeTolerance + 1, RawBody)))}
  \cup {GatewaySignature(g, k, RawBody) :
          g \in {"stripe", "paystack", "flutterwave"},
          k \in {PmSecret, AttackerSecret}}
  \cup {GatewaySignature(g, PmSecret, OtherBody) :
          g \in {"stripe", "paystack", "flutterwave"}}

ProcessWebhookDto(gateway, signature, payload, paymentMethod) ==
  [gateway |-> gateway, signature |-> signature, payload |-> payload,
   paymentMethod |-> paymentMethod]

(* calls of the webhooks module for gateway g with the payment method its
   lookup returns: every signature with one payload, every payload under g's
   own signature, and a payment method that is missing or has no secret *)
GatewayCalls(g, signatures) ==
  {ProcessWebhookDto(g, sig, CHOOSE x \in GatewayPayloads(g) : x.hasData,
                     PaymentMethod("m1", PmSecret)) : sig \in signatures}
  \cup {ProcessWebhookDto(g, GatewaySignature(g, PmSecretOf(m), RawBody), x,
                          PaymentMethod(m, PmSecretOf(m))) :
          x \in GatewayPayloads(g), m \in MerchantIds}
  \cup {ProcessWebhookDto(g, GatewaySignature(g, PmSecret, RawBody),
                          CHOOSE x \in GatewayPayloads(g) : x.hasData, pm) :
          pm \in {NoPaymentMethod, PaymentMethod("m1", Undef)}}

ProcessWebhookDtos ==
  UNION {GatewayCalls(g, GatewaySignatureInputs) :
           g \in {"stripe", "paystack", "flutterwave"}}
  \cup {ProcessWebhookDto("paypal", TextSignature,
                          CHOOSE x \in GatewayPayloads("paypal") : x.hasData,
                          PaymentMethod("m1", Undef)),
        ProcessWebhookDto("square", TextSignature,
                          CHOOSE x \in GatewayPayloads("square") : x.hasData,
                          NoPaymentMethod)}

FewSignatures(g) ==
  {NoSignature, GatewaySignature(g, AttackerSecret, RawBody)}

(* the payment the update of the webhooks module will look up *)
extractedLookup(pays, payload, gateway) ==
  LET d == extractPaymentDataFromWebhook(payload, gateway)
  IN  IF d.error = "none" THEN findByReference(pays, d.reference, Undef)
      ELSE {Null}

(* ------------------------------ state --------------------------------- *)
InitTables ==
  /\ payments = <<>>
  /\ merchants =
       [m \in MerchantIds |->
          [status |-> IF m = "m1" THEN "ACTIVE" ELSE "SUSPENDED",
           totalProcessedAmount |-> 0, totalTransactions |-> 0,
           lastTransactionAt |-> NullTime]]
  /\ now = 0
  /\ last = NoReport
  /\ proc = <<>>
  /\ IdleConsumer
  /\ queue = <<>>
  /\ uuids = 0

Init == InitTables /\ awsConfig \in AwsConfigs

(* POST /payments/initialize *)
InitializePayment ==
  /\ last = NoReport
  /\ Cardinality(DOMAIN payments) < MaxPayments
  /\ \E merchantId \in MerchantIds \cup {"m_unknown"}, amount \in Amounts :
       \E q \in QueueFor(merchantId = "m1") :
         LET reference == RefNames[Cardinality(DOMAIN payments) + 1]
             r == initializePayment(payments, merchants, awsConfig, merchantId,
                                    amount, reference, now, q)
         IN  /\ payments' = r.payments
             /\ now' = clockAfter(now, r.outcome = "ok")
             /\ uuids' = uuids + r.pub.draws
             /\ last' = Report("initializePayment", r.outcome, "none", "none",
                               [NoUpdate(payments, merchants) EXCEPT !.pub = r.pub])
  /\ UNCHANGED <<merchants, awsConfig, consumerVars, proc>>

(* PUT /payments/:reference/status, and updatePaymentStatus called without a
   merchantId *)
UpdatePaymentStatus ==
  /\ last = NoReport
  /\ \E reference \in ReferenceInputs, merchantId \in {Undef, "m1", "m2"} :
       \E found \in findByReference(payments, reference, merchantId) :
         \E status \in IF IsRow(found) /\ reference # Undef THEN StatusInputs
                         ELSE {"COMPLETED", "FAILED"} :
           \E gatewayReference \in IF IsRow(found)
                                     THEN GatewayRefInputs ELSE {"pi_1"},
              failure \in IF IsRow(found) /\ status = "FAILED"
                            THEN FailureInputs ELSE {FailureDefault},
              q \in QueueFor(IsRow(found)) :
             LET dto == [status |-> status, gatewayReference |-> gatewayReference,
                         failureCode |-> failure.code,
                         failureReason |-> failure.reason]
                 r == updatePaymentStatus(payments, merchants, awsConfig, found,
                                          dto, now, q)
             IN  /\ payments' = r.payments
                 /\ merchants' = r.merchants
                 /\ now' = clockAfter(now, r.payments # payments)
                 /\ uuids' = uuids + r.pub.draws
                 /\ last' = Report("updatePaymentStatus", updOutcome(r.upd),
                                   lookupOf(found), "none", r)
  /\ UNCHANGED <<awsConfig, consumerVars, proc>>

(* POST /webhooks/payment *)
HandlePaymentWebhook ==
  /\ last = NoReport
  /\ \E req \in WebhookRequests :
       \E found \in findPaymentByReference(payments, req.payload.reference,
                                           req.payload.gatewayReference) :
         \E q \in QueueFor(IsRow(found)) :
           LET r == processWebhook(payments, merchants, awsConfig, req.payload,
                                   RawBody, req.signature, req.timestamp, found,
                                   now, q)
           IN  /\ payments' = r.payments
               /\ merchants' = r.merchants
               /\ now' = clockAfter(now, r.payments # payments)
               /\ uuids' = uuids + r.pub.draws
               /\ last' = Report("processWebhook", r.outcome, r.lookup, r.sig, r)
                           @@ [event |-> req.payload.event,
                               dataStatus |-> req.payload.status,
                               fee |-> req.payload.gatewayFee]
  /\ UNCHANGED <<awsConfig, consumerVars, proc>>

(* POST /webhooks/stripe, /webhooks/paystack, /webhooks/flutterwave and
   /webhooks/:gateway *)
HandleGatewayWebhook ==
  /\ last = NoReport
  /\ \E req \in GatewayRequests :
       \E found \in gatewayLookup(payments, req.gateway, req.payload) :
         \E q \in QueueFor(IsRow(found)) :
           LET r == processGatewaySpecificWebhook(
                      payments, merchants, awsConfig, req.gateway, req.payload,
                      RawBody, Headers(req.header, req.signature), found, now, q)
           IN  /\ payments' = r.payments
               /\ merchants' = r.merchants
               /\ now' = clockAfter(now, r.payments # payments)
               /\ uuids' = uuids + r.pub.draws
               /\ last' = Report("processGatewaySpecificWebhook", r.outcome,
                                 r.lookup, r.sig, r)
                           @@ GatewayInput(lowerCase(req.gateway), req.payload)
                           @@ [signature |-> req.signature,
                               fee |-> IF lowerCase(req.gateway) \in
                                            {"stripe", "paystack", "flutterwave"}
                                         THEN gatewayWebhookPayload(
                                                lowerCase(req.gateway),
                                                req.payload).gatewayFee
                                         ELSE NullAmount]
  /\ UNCHANGED <<awsConfig, consumerVars, proc>>

(* POST /webhooks/simulate *)
SimulateWebhook ==
  /\ last = NoReport
  /\ \E reference \in ReferenceInputs :
       \E found \in findByReference(payments, reference, Undef) :
         \E status \in IF IsRow(found) /\ payments[found].status = "PENDING"
                         THEN {Undef, "completed", "failed", "cancelled", "pending",
                               "processing", "refunded", "unheard-of"}
                         ELSE {Undef, "failed", "refunded"},
            gatewayReference \in IF IsRow(found) /\ payments[found].status = "PENDING"
                                   THEN GatewayRefInputs ELSE {"pi_1"} :
           \E q \in QueueFor(IsRow(found)) :
             LET dto == [reference |-> reference, status |-> status,
                         gatewayReference |-> gatewayReference,
                         failureReason |-> IF status = "failed"
                                             THEN "Insufficient funds" ELSE Undef]
                 r == simulateWebhook(payments, merchants, awsConfig, dto, found,
                                      now, q)
             IN  /\ payments' = r.payments
                 /\ merchants' = r.merchants
                 /\ now' = clockAfter(now, r.payments # payments)
                 /\ uuids' = uuids + r.pub.draws
                 /\ last' = Report("simulateWebhook", r.outcome, r.lookup, r.sig, r)
                             @@ [found |-> found, status |-> status]
  /\ UNCHANGED <<awsConfig, consumerVars, proc>>

(* WebhookService.processWebhook(webhookDto) of the webhooks module *)
ProcessWebhook ==
  /\ last = NoReport
  /\ \E dto \in ProcessWebhookDtos :
       \E found \in extractedLookup(payments, dto.payload, dto.gateway) :
         \E q \in QueueFor(IsRow(found)) :
           LET r == gatewayProcessWebhook(payments, merchants, awsConfig, dto,
                                          RawBody, dto.paymentMethod, found, now, q)
           IN  /\ payments' = r.payments
               /\ merchants' = r.merchants
               /\ now' = clockAfter(now, r.payments # payments)
               /\ uuids' = uuids + r.pub.draws
               /\ last' = Report("webhooks.processWebhook", r.outcome, r.lookup,
                                 r.sig, r)
                           @@ GatewayInput(dto.gateway, dto.payload)
                           @@ [methodOwner |-> dto.paymentMethod.merchantId]
  /\ UNCHANGED <<awsConfig, consumerVars, proc>>

(* WebhookService.processStripeWebhook(payload, signature) *)
ProcessStripeWebhook ==
  /\ last = NoReport
  /\ \E dto \in GatewayCalls("stripe", FewSignatures("stripe")) :
       \E found \in extractedLookup(payments, dto.payload, "stripe") :
         \E q \in QueueFor(IsRow(found)) :
           LET r == processStripeWebhook(payments, merchants, awsConfig,
                                         dto.payload, RawBody, dto.signature,
                                         dto.paymentMethod, found, now, q)
           IN  /\ payments' = r.payments
               /\ merchants' = r.merchants
               /\ now' = clockAfter(now, r.payments # payments)
               /\ uuids' = uuids + r.pub.draws
               /\ last' = Report("webhooks.processStripeWebhook", r.outcome,
                                 r.lookup, r.sig, r)
                           @@ GatewayInput("stripe", dto.payload)
                           @@ [methodOwner |-> dto.paymentMethod.merchantId]
  /\ UNCHANGED <<awsConfig, consumerVars, proc>>

(* WebhookService.processPaystackWebhook(payload, signature) *)
ProcessPaystackWebhook ==
  /\ last = NoReport
  /\ \E dto \in GatewayCalls("paystack", FewSignatures("paystack")) :
       \E found \in extractedLookup(payments, dto.payload, "paystack") :
         \E q \in QueueFor(IsRow(found)) :
           LET r == processPaystackWebhook(payments, merchants, awsConfig,
                                           dto.payload, RawBody, dto.signature,
                                           dto.paymentMethod, found, now, q)
           IN  /\ payments' = r.payments
               /\ merchants' = r.merchants
               /\ now' = clockAfter(now, r.payments # payments)
               /\ uuids' = uuids + r.pub.draws
               /\ last' = Report("webhooks.processPaystackWebhook", r.outcome,
                                 r.lookup, r.sig, r)
                           @@ GatewayInput("paystack", dto.payload)
                           @@ [methodOwner |-> dto.paymentMethod.merchantId]
  /\ UNCHANGED <<awsConfig, consumerVars, proc>>

(* the answer of the last operation has been delivered *)
Respond ==
  /\ last # NoReport
  /\ last' = NoReport
  /\ UNCHANGED <<uuids, payments, merchants, awsConfig, consumerVars, now, proc>>

Next ==
  \/ Respond
  \/ InitializePayment
  \/ UpdatePaymentStatus
  \/ HandlePaymentWebhook
  \/ HandleGatewayWebhook
  \/ SimulateWebhook
  \/ ProcessWebhook
  \/ ProcessStripeWebhook
  \/ ProcessPaystackWebhook

Spec == Init /\ [][Next]_vars

(* ------------- payments whose rows carry fees -------------------------- *)
(* gateway_fee and platform_fee are columns no handler writes (they default
   to 0); the rows that carry fees are in the table before the handlers run *)
FeeInputs == {<<290, 0>>, <<290, 100>>}

InitFees ==
  /\ merchants =
       [m \in MerchantIds |->
          [status |-> IF m = "m1" THEN "ACTIVE" ELSE "SUSPENDED",
           totalProcessedAmount |-> 0, totalTransactions |-> 0,
           lastTransactionAt |-> NullTime]]
  /\ now = 0
  /\ last = NoReport
  /\ proc = <<>>
  /\ IdleConsumer /\ queue = <<>>
  /\ uuids = 0
  /\ awsConfig = FullAwsConfig
  /\ \/ payments = <<>>
     \/ \E fees \in FeeInputs :
          payments = (RefNames[1] :>
                        [NewPayment("m1", 10050, 0) EXCEPT
                           !.gatewayFee = fees[1], !.platformFee = fees[2]])

SpecFees == InitFees /\ [][Next]_vars

(* ------------------- the producer on its own --------------------------- *)
InitProducer == InitTables /\ awsConfig \in AllAwsConfigs

(* sqsProducerService.publishPaymentEvent(eventType, data) *)
Publish ==
  /\ last = NoReport
  /\ uuids < MaxUuids
  /\ \E eventType \in PaymentEventType, q \in QueueBehaviours :
       LET pub == publishPaymentEvent(awsConfig, eventType, q)
       IN  /\ uuids' = uuids + pub.draws
           /\ last' = Report("publishPaymentEvent",
                             IF pub.result = "throw" THEN "error" ELSE "ok",
                             "none", "none",
                             [NoUpdate(payments, merchants) EXCEPT !.pub = pub])
                      @@ [rejected |-> Cardinality({i \in DOMAIN q : ~q[i]})]
  /\ UNCHANGED <<payments, merchants, awsConfig, consumerVars, now, proc>>

NextProducer == Publish \/ Respond \/ InitializePayment \/ UpdatePaymentStatus

SpecProducer == InitProducer /\ [][NextProducer]_vars

(* ------------------------- batch publishing ---------------------------- *)
BatchResults(n) ==
  {[rejected |-> TRUE, Failed |-> {}]}
    \cup {[rejected |-> FALSE, Failed |-> F] : F \in SUBSET (1..n)}

(* sqsProducerService.sendBatchMessages(events) *)
SendBatchMessages ==
  /\ last = NoReport
  /\ \E n \in 0..MaxBatchEvents :
       \E batchResult \in BatchResults(n), qs \in [1..n -> EventQueueBehaviours] :
         LET b == sendBatchMessages(awsConfig, n, batchResult, qs)
         IN  last' = [op |-> "sendBatchMessages",
                      outcome |-> IF b.result = "throw" THEN "error" ELSE "ok",
                      events |-> n, batchResult |-> batchResult,
                      accepted |-> b.accepted, calls |-> b.calls,
                      exhausted |-> b.exhausted,
                      batchCalls |-> b.batchCalls]
  /\ UNCHANGED <<uuids, payments, merchants, awsConfig, consumerVars, now, proc>>

NextBatch == SendBatchMessages \/ Respond

SpecBatch == Init /\ [][NextBatch]_vars

(* ------------------- the signature verifiers on their own -------------- *)
(* ages of the t of a Stripe header: now, and both edges of the tolerance *)
StripeAges ==
  {0, stripeTolerance, 0 - stripeTolerance, stripeTolerance + 1,
   0 - (stripeTolerance + 1)}

(* signature headers a verifier holding key k is given: well-formed ones of
   every scheme made with k or another key, for the body or another body, a
   Stripe header whose t was changed after signing, and malformed ones *)
SignaturesUnder(k) ==
  {NoSignature, TextSignature, StripeNoV1(0),
   StripeNoT(Hmac("sha256", k, stripeMsg(0, RawBody))),
   StripeSignature(stripeTolerance, Hmac("sha256", k, stripeMsg(0, RawBody)))}
  \cup {HexSignature(prefix, Hmac(alg, key, bodyMsg(b))) :
          prefix \in {"", "sha256="}, alg \in {"sha256", "sha512"},
          key \in {k, AttackerSecret}, b \in {RawBody, OtherBody}}
  \cup {HexThenText(Hmac(alg, key, bodyMsg(RawBody))) :
          alg \in {"sha256", "sha512"}, key \in {k, AttackerSecret}}
  \cup {StripeSignature(age, Hmac("sha256", key, stripeMsg(age, b))) :
          age \in StripeAges, key \in {k, AttackerSecret},
          b \in {RawBody, OtherBody}}
  \cup {StripeTextT(Hmac("sha256", key, stripeTextMsg(RawBody))) :
          key \in {k, AttackerSecret}}

VerifyReport(op, gateway, signature, secret, timestamp, result) ==
  [op |-> op, gateway |-> gateway, signature |-> signature, secret |-> secret,
   timestamp |-> timestamp, result |-> result]

(* verifyWebhookSignature(payload, signature, secret, gateway) of the webhooks
   module *)
VerifyGatewaySignature ==
  /\ last = NoReport
  /\ \E gateway \in {"stripe", "paystack", "flutterwave", "paypal"},
        signature \in SignaturesUnder(PmSecret), secret \in {PmSecret, Undef} :
       last' = VerifyReport("webhooks.verifyWebhookSignature", gateway,
                            signature, secret, NoTimestamp,
                            gatewayVerifyWebhookSignature(RawBody, signature,
                                                          secret, gateway))
  /\ UNCHANGED <<uuids, payments, merchants, awsConfig, consumerVars, now, proc>>

(* verifyWebhookSignature(rawBody, signature, timestamp) of the payments
   module *)
VerifyPaymentSignature ==
  /\ last = NoReport
  /\ \E signature \in SignaturesUnder(webhookSecret),
        timestamp \in {NoTimestamp, Timestamp(0), Timestamp(tolerance + 1),
                       TextTimestamp} :
       last' = VerifyReport("payments.verifyWebhookSignature", "any",
                            signature, webhookSecret, timestamp,
                            IF verifyWebhookSignature(RawBody, signature, timestamp)
                              THEN "true" ELSE "false")
  /\ UNCHANGED <<uuids, payments, merchants, awsConfig, consumerVars, now, proc>>

NextVerify == VerifyGatewaySignature \/ VerifyPaymentSignature \/ Respond

SpecVerify == Init /\ [][NextVerify]_vars

(* --------------------------- SqsConsumerService ------------------------ *)
maxMessages == 10
(* handleFailedMessage: const maxRetries = 3 *)
failedMessageMaxRetries == 3

(* the request receiveMessages sends: it names message attributes, and no
   attribute of the queue's own (AttributeNames) *)
receiveParams ==
  [MaxNumberOfMessages |-> maxMessages, AttributeNames |-> {},
   MessageAttributeNames |-> {"All"}]

(* message.Attributes when the queue was asked for none *)
NoAttributes == [ApproximateReceiveCount |-> 0]

(* the message the queue hands out for an entry: its attributes are the ones
   the request names *)
receivedMessage(id, entry, params) ==
  [MessageId |-> id, Body |-> entry.kind, deleteOk |-> entry.deleteOk,
   Attributes |->
     IF params.AttributeNames \cap {"All", "ApproximateReceiveCount"} # {}
       THEN [ApproximateReceiveCount |-> entry.receiveCount]
       ELSE NoAttributes]

(* getRetryCount(message) *)
getRetryCount(message) ==
  IF message.Attributes.ApproximateReceiveCount # 0
    THEN message.Attributes.ApproximateReceiveCount - 1
    ELSE 0

(* handleFailedMessage(message, error): below the ceiling the message is left
   to the visibility timeout, at the ceiling it is deleted *)
handleFailedMessage(message) ==
  IF getRetryCount(message) < failedMessageMaxRetries
    THEN [deleted |-> FALSE, deleteCalls |-> 0, rejected |-> FALSE]
    ELSE [deleted |-> message.deleteOk, deleteCalls |-> 1,
          rejected |-> ~message.deleteOk]

(* processMessage ending in its catch block *)
messageFailed(message, failedAt, handler, deleteCalls) ==
  LET f == handleFailedMessage(message)
  IN  [handler |-> handler, failedAt |-> failedAt, deleted |-> f.deleted,
       deleteCalls |-> deleteCalls + f.deleteCalls, rejected |-> f.rejected]

(* handlePaymentEvent(paymentEvent): the switch looks at eventType only, and
   the handlers only log (a missing eventId, data.paymentId, data.reference
   or data.merchantId is logged as undefined) *)
handlePaymentEvent(body) ==
  IF body \in {"valid", "no_ids"} THEN "ok" ELSE "unknown"

processMessage_DeletesBeforeHandling(message) ==
  IF ~message.deleteOk THEN messageFailed(message, "delete", "none", 1)
  ELSE [handler |-> IF message.Body \in {"valid", "unknown_type", "no_ids"}
                      THEN handlePaymentEvent(message.Body) ELSE "none",
        failedAt |-> IF message.Body \in {"unparsable", "no_data"}
                       THEN "parse" ELSE "none",
        deleted |-> TRUE, deleteCalls |-> 1, rejected |-> FALSE]

(* processMessage(message) *)
processMessage(message) ==
  IF message.Body = "no_body"
    THEN IF message.deleteOk
           THEN [handler |-> "none", failedAt |-> "none", deleted |-> TRUE,
                 deleteCalls |-> 1, rejected |-> FALSE]
           ELSE messageFailed(message, "delete", "none", 1)
  ELSE IF message.Body = "unparsable"
    THEN messageFailed(message, "parse", "none", 0)
  ELSE IF message.Body = "no_data"
    THEN messageFailed(message, "log", "none", 0)
  ELSE IF message.deleteOk
    THEN [handler |-> handlePaymentEvent(message.Body), failedAt |-> "none",
          deleted |-> TRUE, deleteCalls |-> 1, rejected |-> FALSE]
  ELSE messageFailed(message, "delete", handlePaymentEvent(message.Body), 1)

processMessages_StopsAtFirstFailure(messages) ==
  [m \in DOMAIN messages |->
     IF \E k \in DOMAIN messages :
          k < m /\ processMessage(messages[k]).failedAt # "none"
       THEN [handler |-> "none", failedAt |-> "skipped", deleted |-> FALSE,
             deleteCalls |-> 0, rejected |-> FALSE]
       ELSE processMessage(messages[m])]

(* processMessages(messages): Promise.allSettled over processMessage *)
processMessages(messages) ==
  [m \in DOMAIN messages |-> processMessage(messages[m])]

pollMayRun_IgnoresStop(running, cfg) == sqsConfigured(cfg)

(* poll(): if (!this.isRunning || !this.sqs || !this.queueUrl) return *)
pollMayRun(running, cfg) == running /\ sqsConfigured(cfg)

(* the queue entry after a delivery was handled *)
handledEntry(entry, r) ==
  [entry EXCEPT !.state = IF r.deleted THEN "deleted" ELSE "visible",
                !.handler = IF r.failedAt # "none" THEN "failed" ELSE r.handler]

(* messages the queue holds, and what it answers to deleteMessage for each.
   Bodies: a complete event; one of an eventType the switch does not know; no
   body; no JSON; JSON without a data object; JSON with a known eventType and
   a data object but without eventId, data.paymentId, data.reference and
   data.merchantId *)
MessageFates ==
  {[kind |-> "valid", deleteOk |-> TRUE], [kind |-> "valid", deleteOk |-> FALSE],
   [kind |-> "unknown_type", deleteOk |-> TRUE],
   [kind |-> "no_body", deleteOk |-> TRUE], [kind |-> "no_body", deleteOk |-> FALSE],
   [kind |-> "unparsable", deleteOk |-> TRUE],
   [kind |-> "no_data", deleteOk |-> TRUE],
   [kind |-> "no_ids", deleteOk |-> TRUE]}

QueueEntry(fate) ==
  [kind |-> fate.kind, deleteOk |-> fate.deleteOk, state |-> "visible",
   receiveCount |-> 0, handler |-> "none"]

InitConsumer ==
  /\ payments = <<>>
  /\ merchants = <<>>
  /\ now = 0
  /\ last = NoReport
  /\ proc = <<>>
  /\ awsConfig \in AwsConfigs
  /\ uuids = 0
  /\ IdleConsumer
  /\ \E first \in MessageFates, rest \in {f \in MessageFates : f.deleteOk} :
       queue = [m \in MessageIds |->
                  QueueEntry(IF m = 1 THEN first ELSE rest)]

ConsumerReport(op, outcome) == [NoReport EXCEPT !.op = op, !.outcome = outcome]

(* startPolling() *)
StartPolling ==
  /\ IF ~sqsConfigured(awsConfig)
       THEN /\ last' = ConsumerReport("startPolling", "disabled")
            /\ UNCHANGED <<isRunning, loops>>
     ELSE IF isRunning
       THEN /\ last' = ConsumerReport("startPolling", "already_running")
            /\ UNCHANGED <<isRunning, loops>>
     ELSE /\ \E l \in LoopIds : loops[l].pc = "none"
          /\ LET l == CHOOSE k \in LoopIds :
                        /\ loops[k].pc = "none"
                        /\ \A j \in LoopIds : loops[j].pc = "none" => k <= j
             IN  loops' = [loops EXCEPT ![l].pc =
                             IF pollMayRun(TRUE, awsConfig) THEN "receiving"
                             ELSE "none"]
          /\ isRunning' = TRUE
          /\ last' = ConsumerReport("startPolling", "started")
  /\ UNCHANGED <<uuids, payments, merchants, awsConfig, now, proc, pollingTimeout, queue>>

(* stopPolling(): clearTimeout on a timer that has fired does nothing *)
StopPolling ==
  /\ isRunning' = FALSE
  /\ pollingTimeout' = NoTimer
  /\ loops' = IF pollingTimeout # NoTimer /\ loops[pollingTimeout].pc = "timer"
                THEN [loops EXCEPT ![pollingTimeout] = NoLoop]
                ELSE loops
  /\ last' = ConsumerReport("stopPolling", "ok")
  /\ UNCHANGED <<uuids, payments, merchants, awsConfig, now, proc, queue>>

(* the timer set by poll() fires: poll() runs again *)
TimerFires(l) ==
  /\ loops[l].pc = "timer"
  /\ loops' = [loops EXCEPT ![l] =
                 [pc |-> IF pollMayRun(isRunning, awsConfig) THEN "receiving"
                         ELSE "none",
                  batch |-> {}]]
  /\ UNCHANGED <<uuids, payments, merchants, awsConfig, now, proc, last, isRunning,
                 pollingTimeout, queue>>

(* sqs.receiveMessage is rejected: poll() logs and sets its timer *)
ReceiveFails(l) ==
  /\ loops[l].pc = "receiving"
  /\ loops' = [loops EXCEPT ![l].pc = "timer"]
  /\ pollingTimeout' = l
  /\ UNCHANGED <<uuids, payments, merchants, awsConfig, now, proc, last, isRunning, queue>>

(* sqs.receiveMessage resolves with some of the visible messages; with none,
   poll() sets its timer at once *)
Receive(l) ==
  /\ loops[l].pc = "receiving"
  /\ \E batch \in SUBSET {m \in DOMAIN queue :
                             /\ queue[m].state = "visible"
                             /\ queue[m].receiveCount < MaxReceives} :
       /\ Cardinality(batch) <= receiveParams.MaxNumberOfMessages
       /\ queue' = [m \in DOMAIN queue |->
                      IF m \in batch
                        THEN [queue[m] EXCEPT !.state = "inflight",
                                              !.receiveCount = @ + 1]
                        ELSE queue[m]]
       /\ loops' = [loops EXCEPT ![l] =
                      IF batch = {} THEN [pc |-> "timer", batch |-> {}]
                      ELSE [pc |-> "processing", batch |-> batch]]
       /\ pollingTimeout' = IF batch = {} THEN l ELSE pollingTimeout
  /\ UNCHANGED <<uuids, payments, merchants, awsConfig, now, proc, last, isRunning>>

(* processMessages settles, poll() sets its timer; a message that was not
   deleted becomes visible again. The loop keeps the messages of its last
   poll until its timer fires. *)
Settle(l) ==
  /\ loops[l].pc = "processing"
  /\ LET messages == [m \in loops[l].batch |->
                        receivedMessage(m, queue[m], receiveParams)]
         results == processMessages(messages)
     IN  queue' = [m \in DOMAIN queue |->
                     IF m \in loops[l].batch
                       THEN handledEntry(queue[m], results[m])
                       ELSE queue[m]]
  /\ loops' = [loops EXCEPT ![l].pc = "timer"]
  /\ pollingTimeout' = l
  /\ UNCHANGED <<uuids, payments, merchants, awsConfig, now, proc, last, isRunning>>

NextConsumer ==
  \/ StartPolling
  \/ StopPolling
  \/ \E l \in LoopIds : TimerFires(l)
  \/ \E l \in LoopIds : ReceiveFails(l)
  \/ \E l \in LoopIds : Receive(l)
  \/ \E l \in LoopIds : Settle(l)

SpecConsumer == InitConsumer /\ [][NextConsumer]_vars

(* ------------- concurrent requests for the same payment ---------------- *)
(* updatePaymentStatus and the webhook around it, one step per await: the
   handlers run on one event loop and interleave at their database calls. *)
Procs == 1..MaxProcs

IdleProc ==
  [pc |-> "idle", op |-> "none", reference |-> Undef, status |-> "none",
   payment |-> [status |-> "none"], t |-> NullTime, applied |-> FALSE,
   overwrote |-> "none", published |-> "none", outcome |-> "none"]

(* the statuses concurrent requests ask for, as the gateway names them *)
ConcurrentStatusInputs == {"completed", "failed", "processing", "cancelled"}

InitConc ==
  /\ payments = (RefNames[1] :> NewPayment("m1", 10050, 0))
  /\ merchants =
       [m \in MerchantIds |->
          [status |-> IF m = "m1" THEN "ACTIVE" ELSE "SUSPENDED",
           totalProcessedAmount |-> 0, totalTransactions |-> 0,
           lastTransactionAt |-> NullTime]]
  /\ awsConfig = FullAwsConfig
  /\ now = 1
  /\ last = NoReport
  /\ proc = [p \in Procs |-> IdleProc]
  /\ IdleConsumer
  /\ queue = <<>>
  /\ uuids = uuidv4(uuidv4(0))

(* a request arrives: PUT /payments/:reference/status or POST /webhooks/payment
   with a valid signature *)
Begin(p) ==
  /\ proc[p].pc = "idle"
  /\ \E op \in {"updatePaymentStatus", "processWebhook"},
        gatewayStatus \in ConcurrentStatusInputs :
       proc' = [proc EXCEPT ![p] =
                  [@ EXCEPT !.pc = IF op = "processWebhook" THEN "find" ELSE "read",
                            !.op = op,
                            !.reference = RefNames[1],
                            !.status =
                               IF op = "processWebhook"
                                 THEN mapGatewayStatusToInternal(gatewayStatus, Undef)
                                 ELSE statusMap[gatewayStatus]]]
  /\ UNCHANGED <<uuids, payments, merchants, awsConfig, consumerVars, now, last>>

(* await this.findPaymentByReference(...) of processWebhook *)
Find(p) ==
  /\ proc[p].pc = "find"
  /\ \E found \in findPaymentByReference(payments, proc[p].reference, Undef) :
       proc' = [proc EXCEPT ![p] =
                  IF IsRow(found) THEN [@ EXCEPT !.pc = "read"]
                  ELSE [@ EXCEPT !.pc = "done", !.outcome = "not_found"]]
  /\ UNCHANGED <<uuids, payments, merchants, awsConfig, consumerVars, now, last>>

(* a read that lets a rejected update go on to the publish *)
Read_PublishesRejected(p) ==
  /\ proc[p].pc = "read"
  /\ \E found \in findByReference(payments, proc[p].reference, Undef) :
       proc' = [proc EXCEPT ![p] =
                  IF ~IsRow(found)
                    THEN [@ EXCEPT !.pc = "done", !.outcome = "not_found"]
                  ELSE IF ~isValidStatusTransition(payments[found].status, @.status)
                    THEN [@ EXCEPT !.pc = "publish", !.payment = payments[found]]
                  ELSE [@ EXCEPT !.pc = "update", !.payment = payments[found],
                                 !.t = now]]
  /\ now' = now + 1
  /\ UNCHANGED <<uuids, payments, merchants, awsConfig, consumerVars, last>>

(* await this.paymentRepository.findOne(...) of updatePaymentStatus, the
   transition check on the row read, and the Date of updateData *)
Read(p) ==
  /\ proc[p].pc = "read"
  /\ \E found \in findByReference(payments, proc[p].reference, Undef) :
       proc' = [proc EXCEPT ![p] =
                  IF ~IsRow(found)
                    THEN [@ EXCEPT !.pc = "done", !.outcome = "not_found"]
                  ELSE IF ~isValidStatusTransition(payments[found].status, @.status)
                    THEN [@ EXCEPT !.pc = "done", !.outcome = "bad_request",
                                   !.payment = payments[found]]
                  ELSE [@ EXCEPT !.pc = "update", !.payment = payments[found],
                                 !.t = now]]
  /\ now' = now + 1
  /\ UNCHANGED <<uuids, payments, merchants, awsConfig, consumerVars, last>>

(* await this.paymentRepository.update(payment.id, updateData) *)
Update(p) ==
  /\ proc[p].pc = "update"
  /\ LET dto == [status |-> proc[p].status, gatewayReference |-> Undef,
                 failureCode |-> Undef, failureReason |-> Undef]
         ref == proc[p].reference
     IN  /\ payments' = [payments EXCEPT ![ref] =
                           applyUpdate(@, proc[p].payment, dto, proc[p].t)]
         /\ proc' = [proc EXCEPT ![p] =
                       [@ EXCEPT !.pc = IF proc[p].status = "COMPLETED" THEN "statistics"
                                        ELSE "publish",
                                 !.applied = TRUE,
                                 !.overwrote = payments[ref].status]]
  /\ UNCHANGED <<uuids, merchants, awsConfig, consumerVars, now, last>>

(* await this.updateMerchantStatistics(payment.merchantId, payment.amount) *)
Statistics(p) ==
  /\ proc[p].pc = "statistics"
  /\ merchants' = updateMerchantStatistics(merchants, proc[p].payment.merchantId,
                                           proc[p].payment.amount, now)
  /\ proc' = [proc EXCEPT ![p] = [@ EXCEPT !.pc = "publish"]]
  /\ UNCHANGED <<uuids, payments, awsConfig, consumerVars, now, last>>

(* the publish inside try/catch and the findOne of the updated payment *)
PublishAndReturn(p) ==
  /\ proc[p].pc = "publish"
  /\ \E q \in HandlerQueueBehaviours :
       LET pub == publishStatusEvent(awsConfig, proc[p].status, q)
       IN  /\ uuids' = uuids + pub.draws
           /\ proc' = [proc EXCEPT ![p] =
                         [@ EXCEPT !.pc = IF proc[p].op = "processWebhook"
                                            THEN "delivery" ELSE "done",
                                   !.published = pub.eventType,
                                   !.outcome = IF pub.result = "throw" THEN "error"
                                               ELSE "ok"]]
  /\ UNCHANGED <<payments, merchants, awsConfig, consumerVars, now, last>>

(* await this.updateWebhookDelivery(payment.id) of processWebhook *)
Delivery(p) ==
  /\ proc[p].pc = "delivery"
  /\ payments' = updateWebhookDelivery(payments, proc[p].reference, now)
  /\ proc' = [proc EXCEPT ![p] = [@ EXCEPT !.pc = "done"]]
  /\ UNCHANGED <<uuids, merchants, awsConfig, consumerVars, now, last>>

NextConc ==
  \E p \in Procs :
    \/ Begin(p)
    \/ Find(p)
    \/ Read(p)
    \/ Update(p)
    \/ Statistics(p)
    \/ PublishAndReturn(p)
    \/ Delivery(p)

SpecConc == InitConc /\ [][NextConc]_vars

(* ------------------------------ properties ----------------------------- *)
(* the transition table of the specification, pair by pair *)
TransitionTable ==
  {<<"PENDING", "PROCESSING">>, <<"PENDING", "COMPLETED">>, <<"PENDING", "FAILED">>,
   <<"PENDING", "CANCELLED">>, <<"PENDING", "EXPIRED">>,
   <<"PROCESSING", "COMPLETED">>, <<"PROCESSING", "FAILED">>,
   <<"PROCESSING", "CANCELLED">>,
   <<"COMPLETED", "REFUNDED">>, <<"COMPLETED", "PARTIALLY_REFUNDED">>,
   <<"COMPLETED", "DISPUTED">>,
   <<"PARTIALLY_REFUNDED", "REFUNDED">>}

TerminalStatuses == {"FAILED", "CANCELLED", "REFUNDED", "DISPUTED", "EXPIRED"}

WebhookOperations ==
  {"processWebhook", "processGatewaySpecificWebhook", "simulateWebhook",
   "webhooks.processWebhook", "webhooks.processStripeWebhook",
   "webhooks.processPaystackWebhook"}

(* the payment is, or has been, COMPLETED: the statuses only COMPLETED leads to *)
ReachedCompleted(row) ==
  row.status \in {"COMPLETED", "REFUNDED", "PARTIALLY_REFUNDED", "DISPUTED"}

CompletedOf(m) ==
  {r \in DOMAIN payments :
     payments[r].merchantId = m /\ ReachedCompleted(payments[r])}

RECURSIVE SumAmounts(_, _)
SumAmounts(pays, refs) ==
  IF refs = {} THEN 0
  ELSE LET r == CHOOSE x \in refs : TRUE
       IN  pays[r].amount + SumAmounts(pays, refs \ {r})

PublishFailed(pub) == pub.result \in {"throw", "swallowed"}

(* some value of app.aws is unset or blank *)
NoQueueConfigured ==
  \E k \in DOMAIN awsConfig : awsConfig[k] \in {Undef, "", " ", "   "}

(* C1: updatePaymentStatus on an existing payment whose status is `from`,
   asked to move to `to`, succeeds if and only if (from, to) is a pair of the
   transition table; every other pair, from = to included, is rejected. *)
C1_TransitionTableDecides ==
  (last.op = "updatePaymentStatus" /\ last.lookup = "row") =>
    ((last.upd = "ok") <=> (<<last.from, last.to>> \in TransitionTable))

C1_Witness ==
  /\ last.op = "updatePaymentStatus"
  /\ last.upd = "ok"
  /\ last.from = "PARTIALLY_REFUNDED"
  /\ last.to = "REFUNDED"

(* C2: an update rejected as an invalid transition changes no field of any
   payment and no merchant statistic, and hands no event to the publisher. *)
C2_RejectedUpdateChangesNothing ==
  [][last'.upd = "invalid_transition" =>
       /\ payments' = payments
       /\ merchants' = merchants
       /\ last'.pub = NoPublish]_vars

C2_Witness ==
  /\ last.op = "updatePaymentStatus"
  /\ last.upd = "invalid_transition"
  /\ last.from = "COMPLETED"
  /\ last.to = "COMPLETED"

(* C3: with requests for the same payment interleaved at every database call
   of updatePaymentStatus, at most one request takes effect on the PENDING
   payment, the merchant counts each payment at most once, and no status is
   written over a status the transition table does not allow it to follow. *)
C3_NoDoubleProcessing ==
  /\ Cardinality({p \in Procs : proc[p].applied
                                 /\ proc[p].payment.status = "PENDING"}) <= 1
  /\ \A m \in MerchantIds :
       merchants[m].totalTransactions
         <= Cardinality({r \in DOMAIN payments : payments[r].merchantId = m})
  /\ \A p \in Procs :
       proc[p].applied => <<proc[p].overwrote, proc[p].status>> \in TransitionTable

(* C4: a `completed` update or webhook replayed on a COMPLETED payment is
   rejected as an invalid transition, and over any sequence of operations a
   merchant's totalTransactions is the number, and totalProcessedAmount the sum
   of the amounts, of its payments that reached COMPLETED. *)
C4_StatisticsCountEachCompletionOnce ==
  /\ (last.from = "COMPLETED" /\ last.to = "COMPLETED") =>
       last.upd = "invalid_transition"
  /\ \A m \in MerchantIds :
       /\ merchants[m].totalTransactions = Cardinality(CompletedOf(m))
       /\ merchants[m].totalProcessedAmount = SumAmounts(payments, CompletedOf(m))

C4_Witness ==
  /\ last.op = "processWebhook"
  /\ last.from = "COMPLETED"
  /\ last.to = "COMPLETED"
  /\ last.upd = "invalid_transition"
  /\ merchants["m1"].totalTransactions = 1

(* C5: a payment whose status is FAILED, CANCELLED, REFUNDED, DISPUTED or
   EXPIRED keeps that status through every step of every entrypoint. *)
C5_TerminalStatesAbsorbing ==
  [][\A r \in DOMAIN payments :
       payments[r].status \in TerminalStatuses =>
         r \in DOMAIN payments' /\ payments'[r].status = payments[r].status]_vars

C5_Witness ==
  /\ last.op = "processGatewaySpecificWebhook"
  /\ last.upd = "invalid_transition"
  /\ last.from = "EXPIRED"
  /\ \E r \in DOMAIN payments : payments[r].status = "EXPIRED"

(* C6: a webhook whose signature is not accepted (verification answers false,
   the gateway's signature header is missing, or the verifier fails) changes no
   payment and no merchant, publishes nothing and does not succeed; when
   verification answered false or the header was missing it ends with the
   invalid-signature error. *)
C6_InvalidSignatureChangesNothing ==
  [][last'.sig \in {"rejected", "missing", "throw"} =>
       /\ payments' = payments
       /\ merchants' = merchants
       /\ last'.pub = NoPublish
       /\ last'.upd = "none"
       /\ last'.outcome # "ok"
       /\ last'.sig # "throw" =>
            last'.outcome \in {"unauthorized", "invalid_signature"}]_vars

C6_Witness ==
  /\ last.op = "processWebhook"
  /\ last.sig = "rejected"
  /\ last.outcome = "unauthorized"
  /\ \E r \in DOMAIN payments : payments[r].status = "PENDING"

(* C7: no webhook or simulation step adds a payment, and one whose lookup
   finds no payment ends not-found with every payment and merchant unchanged
   and nothing published. *)
C7_UnresolvedReferenceIsNotFound ==
  [][last'.op \in WebhookOperations =>
       /\ DOMAIN payments' = DOMAIN payments
       /\ last'.lookup = "null" =>
            /\ last'.outcome = "not_found"
            /\ payments' = payments
            /\ merchants' = merchants
            /\ last'.pub = NoPublish]_vars

C7_Witness ==
  /\ last.op = "processGatewaySpecificWebhook"
  /\ last.lookup = "null"
  /\ last.outcome = "not_found"
  /\ DOMAIN payments # {}

(* C8: when the publisher fails after its retries, updatePaymentStatus still
   succeeds and the new status, its timestamp, the netAmount and the merchant
   statistics it persisted are kept; initializePayment still answers with the
   PENDING payment it created. *)
C8_PublishFailureKeepsPersistedState ==
  /\ (last.op = "updatePaymentStatus" /\ PublishFailed(last.pub)) =>
       /\ last.outcome = "ok"
       /\ payments[last.ref].status = last.to
       /\ last.to = "PROCESSING" => payments[last.ref].processedAt # NullTime
       /\ last.to \in {"FAILED", "CANCELLED", "EXPIRED"} =>
            payments[last.ref].failedAt # NullTime
       /\ last.to = "COMPLETED" =>
            /\ payments[last.ref].completedAt # NullTime
            /\ payments[last.ref].netAmount = calculateNetAmount(payments[last.ref])
            /\ merchants[payments[last.ref].merchantId].totalTransactions
                 = Cardinality(CompletedOf(payments[last.ref].merchantId))
  /\ (last.op = "initializePayment" /\ PublishFailed(last.pub)) =>
       /\ last.outcome = "ok"
       /\ \E r \in DOMAIN payments :
            payments[r].status = "PENDING" /\ payments[r].initiatedAt = now - 1

C8_Witness ==
  /\ last.op = "updatePaymentStatus"
  /\ last.pub.result = "swallowed"
  /\ last.pub.sends > 0
  /\ last.to = "COMPLETED"
  /\ merchants["m1"].totalTransactions = 1

(* C9: when a value of the queue configuration is unset or blank, every
   publish answers 'sqs-disabled' without a send and without an error, and
   initializePayment and every valid updatePaymentStatus succeed with the
   state they persist. *)
C9_DisabledPublisherIsNoOp ==
  NoQueueConfigured =>
    /\ last.pub.result \in {"none", "sqs-disabled"}
    /\ last.pub.sends = 0
    /\ last.op = "publishPaymentEvent" =>
         last.pub.result = "sqs-disabled" /\ last.outcome = "ok"
    /\ (last.op = "initializePayment" /\ last.outcome = "ok") =>
         last.pub.result = "sqs-disabled"
    /\ (last.op = "updatePaymentStatus" /\ last.lookup = "row"
        /\ <<last.from, last.to>> \in TransitionTable) =>
         /\ last.outcome = "ok"
         /\ last.pub.result = "sqs-disabled"
         /\ payments[last.ref].status = last.to

C9_Witness ==
  /\ awsConfig = [FullAwsConfig EXCEPT !.sqsQueueUrl = "   "]
  /\ last.op = "updatePaymentStatus"
  /\ last.upd = "ok"
  /\ last.to = "COMPLETED"
  /\ last.pub.result = "sqs-disabled"

(* C10: a publish whose every send fails makes exactly 3 sends and then fails
   with an error; one whose first two sends fail and whose third succeeds
   answers the message id after exactly 3 sends. *)
C10_ThreeSendAttempts ==
  (last.op = "publishPaymentEvent" /\ ~NoQueueConfigured) =>
    /\ last.pub.result \in {"throw", "MessageId"}
    /\ last.pub.result = "throw" => last.pub.sends = 3
    /\ last.rejected = 2 => (last.pub.result = "MessageId" /\ last.pub.sends = 3)

(* C11: when the queue reports entries of a batch as failed, only those
   events are sent again individually, and every event the batch call accepted
   is accepted by the queue exactly once and never sent individually, also when
   the individual send of a failed event exhausts its retries. *)
C11_OnlyFailedEntriesResent ==
  (last.op = "sendBatchMessages" /\ last.batchCalls > 0
   /\ ~last.batchResult.rejected) =>
    \A e \in 1..last.events :
      e \notin last.batchResult.Failed =>
        last.accepted[e] = 1 /\ last.calls[e] = 0

(* a poll of loop l is in flight *)
InFlight(l) == loops[l].pc \in {"receiving", "processing"}

(* C12: a message with a body is deleted only by a delivery whose handling
   completed without error, and a message whose handling failed while its
   redelivery count is within the ceiling is not deleted: it stays in the
   queue. *)
C12_DeleteOnlyAfterHandling ==
  \A m \in DOMAIN queue :
    /\ (queue[m].state = "deleted" /\ queue[m].kind # "no_body") =>
         queue[m].handler \in {"ok", "unknown"}
    /\ (queue[m].handler = "failed"
        /\ queue[m].receiveCount - 1 <= failedMessageMaxRetries) =>
         queue[m].state \in {"visible", "inflight"}

C12_Witness ==
  \E l \in LoopIds :
    /\ loops[l].pc = "timer"
    /\ loops[l].batch = {1, 2}
    /\ queue[1].kind = "no_data" /\ queue[1].handler = "failed"
    /\ queue[1].state = "visible" /\ queue[1].receiveCount = 2
    /\ queue[2].kind = "valid" /\ queue[2].state = "deleted"

(* C13: a message whose handling fails on every delivery is removed from the
   queue after a bounded number of deliveries: no message still in the queue
   has been delivered more often than the ceiling allows. *)
C13_FailingMessageDropped ==
  \A m \in DOMAIN queue :
    queue[m].state # "deleted" =>
      queue[m].receiveCount <= failedMessageMaxRetries + 2

(* C14: a consumer never has two receive requests in flight, nor two loops
   (polls in flight or timers pending) at once. *)
C14_SinglePollingLoop ==
  /\ Cardinality({l \in LoopIds : loops[l].pc = "receiving"}) <= 1
  /\ Cardinality({l \in LoopIds : loops[l].pc # "none"}) <= 1

(* C15: a receive request is only issued by a step that leaves the consumer
   running, so none is issued between stopPolling and the next startPolling;
   stopPolling, also when called again, leaves every poll in flight and the
   queue untouched and ends without error. *)
C15_StopPreventsNewReceives ==
  [][/\ \A l \in LoopIds :
          (loops'[l].pc = "receiving" /\ loops[l].pc # "receiving") => isRunning'
     /\ (~isRunning' /\ (isRunning \/ (pollingTimeout # NoTimer
                                        /\ pollingTimeout' = NoTimer))) =>
          /\ \A l \in LoopIds : InFlight(l) => loops'[l] = loops[l]
          /\ queue' = queue
          /\ last'.op = "stopPolling" /\ last'.outcome = "ok"]_vars

C15_Witness ==
  /\ ~isRunning
  /\ last.op = "stopPolling"
  /\ \E l \in LoopIds :
       /\ loops[l].pc = "timer"
       /\ loops[l].batch # {}
       /\ \A m \in loops[l].batch : queue[m].state = "deleted"
       /\ \A k \in LoopIds \ {l} : loops[k].pc = "none"

(* C16: every poll ends by setting its timer, also when its receive call or
   the handling of a message failed, and every message of a poll is handled
   whatever happens to the others: a well-formed message whose delete the
   queue accepts is deleted even when another message of the poll failed. *)
C16_FailuresDoNotStopPolling ==
  [][\A l \in LoopIds :
       /\ (InFlight(l) /\ loops'[l].pc \notin {"receiving", "processing"}) =>
            (loops'[l].pc = "timer" /\ pollingTimeout' = l)
       /\ (loops[l].pc = "processing" /\ loops'[l].pc # "processing") =>
            \A m \in loops[l].batch :
              /\ queue'[m].state # "inflight"
              /\ queue'[m].handler # "none" \/ queue[m].kind = "no_body"
              /\ (queue[m].kind \in {"valid", "unknown_type"} /\ queue[m].deleteOk) =>
                   queue'[m].state = "deleted"]_vars

C16_Witness ==
  \E l \in LoopIds :
    /\ isRunning
    /\ loops[l].pc = "timer"
    /\ loops[l].batch = {1, 2}
    /\ queue[1].kind = "unparsable" /\ queue[1].handler = "failed"
    /\ queue[1].receiveCount = 1
    /\ queue[2].kind = "valid" /\ queue[2].state = "deleted"
    /\ queue[2].receiveCount = 1

(* the entrypoints that take a gateway's own webhook *)
GatewayOperations ==
  {"processGatewaySpecificWebhook", "webhooks.processWebhook",
   "webhooks.processStripeWebhook", "webhooks.processPaystackWebhook"}

(* the payment events each gateway's webhooks are handled for *)
SupportedEvents(gateway) ==
  CASE gateway = "stripe" ->
         {"payment_intent.succeeded", "payment_intent.payment_failed"}
    [] gateway = "paystack" -> {"charge.success", "charge.failed"}
    [] OTHER -> {}

(* C17: the multi-gateway processWebhook answers a correctly signed webhook
   whose reference matches no payment with success: false; it does not raise
   the NotFound error. *)
C17_UnmatchedReferenceAnswered ==
  (/\ last.op = "webhooks.processWebhook"
   /\ last.sig = "accepted"
   /\ last.reference # Undef
   /\ last.lookup = "null")
    => last.outcome = "failed_response"

(* C18: on every entrypoint taking a gateway's webhooks, a correctly signed
   Stripe or Paystack webhook whose event type is not one of the gateway's
   supported payment events is answered with success: true and the
   unsupported-event message, and no payment changes. *)
C18_UnsupportedEventIgnored ==
  [][(/\ last'.op \in GatewayOperations
      /\ last'.sig = "accepted"
      /\ last'.gateway \in {"stripe", "paystack"}
      /\ last'.hasData
      /\ last'.event \notin SupportedEvents(last'.gateway))
       => (/\ last'.outcome = "unsupported_event"
           /\ last'.upd = "none"
           /\ payments' = payments)]_vars

(* C19: on every entrypoint and for every gateway, a correctly signed webhook
   which carries no payment reference is rejected as a bad request before any
   payment is looked up or updated. *)
C19_MissingReferenceRejected ==
  (/\ last.op \in GatewayOperations
   /\ last.sig = "accepted"
   /\ last.gateway \in {"stripe", "paystack", "flutterwave"}
   /\ last.hasData
   /\ last.gateway # "flutterwave" => last.event \in SupportedEvents(last.gateway)
   /\ last.reference = Undef)
    => (/\ last.outcome = "bad_request"
        /\ last.lookup = "none"
        /\ last.upd = "none")

(* a call of simulateWebhook has just found a payment that is not PENDING *)
SimulatedNonPending ==
  /\ last'.op = "simulateWebhook"
  /\ last'.lookup = "row"
  /\ payments[last'.found].status # "PENDING"

(* C20 as stated: simulateWebhook on a payment that is not PENDING is rejected
   with a conflict error; nothing of the payment or of the merchant
   statistics changes and no event is published. *)
C20_NonPendingIsConflict ==
  [][SimulatedNonPending =>
       (/\ last'.outcome = "conflict"
        /\ payments' = payments /\ merchants' = merchants
        /\ last'.pub = NoPublish)]_vars

(* C20, amended: simulateWebhook on a payment that is not PENDING is rejected
   with a bad-request error and never reports success; the payment (status,
   fields, webhook counters) and the merchant statistics are unchanged and no
   event is published. *)
C20_NonPendingIsRejected ==
  [][SimulatedNonPending =>
       (/\ last'.outcome = "bad_request"
        /\ last'.upd = "none"
        /\ payments' = payments /\ merchants' = merchants
        /\ last'.pub = NoPublish)]_vars

C20_Witness ==
  /\ last.op = "simulateWebhook"
  /\ last.lookup = "row"
  /\ last.outcome = "bad_request"
  /\ last.status = Undef
  /\ payments[last.found].status = "PROCESSING"
  /\ payments[last.found].webhookAttempts > 0

(* C21: the HTTP webhook endpoint of each gateway accepts a request whose
   signature header was correctly computed under that gateway's own scheme
   with the configured secret (Stripe: t=<now>,v1=HMAC-SHA256 of <t>.<body>;
   Paystack: HMAC-SHA512 of the body; Flutterwave: HMAC-SHA256 of the body). *)
C21_OwnSchemeAccepted ==
  (/\ last.op = "processGatewaySpecificWebhook"
   /\ last.gateway \in {"stripe", "paystack", "flutterwave"}
   /\ last.signature = GatewaySignature(last.gateway, webhookSecret, RawBody))
    => last.sig = "accepted"

(* what the Stripe scheme asks of a header: both t and v1 are there, t is a
   time within the tolerance of now, and v1 is the HMAC-SHA256 of
   "<t>.<body>" under the secret *)
StripeHeaderValid(signature, secret) ==
  /\ signature.kind = "stripe"
  /\ Abs(signature.age) <= stripeTolerance
  /\ secret # Undef
  /\ signature.v1 = Hmac("sha256", secret, stripeMsg(signature.age, RawBody))

(* C22: Stripe-style verification answers true exactly when the header has t
   and v1, v1 is the HMAC-SHA256 of "<t>.<body>" under the secret, and t is
   at most 300 seconds from now. *)
C22_StripeVerificationExact ==
  (/\ last.op = "webhooks.verifyWebhookSignature"
   /\ last.gateway = "stripe")
    => (last.result = "true" <=> StripeHeaderValid(last.signature, last.secret))

(* signature headers that are malformed under every scheme: absent, no hex
   text, hex digits followed by other characters, a Stripe header lacking a
   segment *)
MalformedSignature(signature) ==
  signature.kind \in {"undefined", "text", "hex_text", "stripe_no_t",
                      "stripe_no_v1"}

(* C23: given a malformed signature, the verifier of either module answers
   false, for every gateway, and lets no exception escape. *)
C23_MalformedSignatureFailsClosed ==
  (/\ last.op \in {"webhooks.verifyWebhookSignature",
                    "payments.verifyWebhookSignature"}
   /\ last.gateway # "paypal"
   /\ last.secret # Undef
   /\ MalformedSignature(last.signature))
    => last.result = "false"

(* the transition of payment r in this step enters COMPLETED *)
EntersCompleted(r) ==
  /\ payments[r].status # "COMPLETED"
  /\ payments'[r].status = "COMPLETED"

(* C24: a transition into COMPLETED sets netAmount to amount - gatewayFee -
   platformFee; no other step writes netAmount, and a new payment has none. *)
C24_NetAmountOnCompletion ==
  [][\A r \in DOMAIN payments' :
       IF r \notin DOMAIN payments
         THEN payments'[r].netAmount = NullAmount
       ELSE IF EntersCompleted(r)
         THEN payments'[r].netAmount =
                payments[r].amount - payments[r].gatewayFee
                  - payments[r].platformFee
         ELSE payments'[r].netAmount = payments[r].netAmount]_vars

C24_Witness ==
  \E r \in DOMAIN payments :
    /\ payments[r].status = "COMPLETED"
    /\ payments[r].amount = 10050
    /\ payments[r].gatewayFee = 290
    /\ payments[r].platformFee = 0
    /\ payments[r].netAmount = 9760

(* the statuses whose entry stamps failedAt *)
FailureStatuses == {"FAILED", "CANCELLED", "EXPIRED"}

(* in this step payment r goes from a status outside S to one inside S *)
Enters(r, S) == payments[r].status \notin S /\ payments'[r].status \in S

(* C25: processedAt, completedAt and failedAt are each written only by the
   step in which the payment enters PROCESSING, COMPLETED and
   FAILED/CANCELLED/EXPIRED; that step finds the timestamp unset and sets it
   to the time of the step, and no other step changes it. *)
C25_TimestampsWrittenOnce ==
  [][\A r \in DOMAIN payments \cap DOMAIN payments' :
       /\ IF Enters(r, {"PROCESSING"})
            THEN payments[r].processedAt = NullTime
                 /\ payments'[r].processedAt = now
            ELSE payments'[r].processedAt = payments[r].processedAt
       /\ IF Enters(r, {"COMPLETED"})
            THEN payments[r].completedAt = NullTime
                 /\ payments'[r].completedAt = now
            ELSE payments'[r].completedAt = payments[r].completedAt
       /\ IF Enters(r, FailureStatuses)
            THEN payments[r].failedAt = NullTime
                 /\ payments'[r].failedAt = now
            ELSE payments'[r].failedAt = payments[r].failedAt]_vars

C25_Witness ==
  \E r \in DOMAIN payments :
    /\ payments[r].status = "REFUNDED"
    /\ payments[r].processedAt # NullTime
    /\ payments[r].completedAt > payments[r].processedAt
    /\ payments[r].failedAt = NullTime
    /\ now > payments[r].completedAt + 1

(* C26: every status update a webhook entrypoint applies increments the
   payment's webhookAttempts by exactly 1 and sets webhookDelivered and
   lastWebhookAt. *)
C26_WebhookUpdateCounted ==
  [][(last'.op \in WebhookOperations /\ last'.upd = "ok") =>
       LET r == last'.ref
       IN  /\ payments'[r].status # payments[r].status
           /\ payments'[r].webhookAttempts = payments[r].webhookAttempts + 1
           /\ payments'[r].webhookDelivered
           /\ payments'[r].lastWebhookAt = now]_vars

(* C27: every event initializePayment or updatePaymentStatus hands to the
   publisher has an eventType that is one of the seven PaymentEventType
   values, whatever the target status. *)
C27_PublishedEventTypeKnown ==
  last.pub # NoPublish => last.pub.eventType \in PaymentEventType

(* C28: a publish that creates an event draws its eventId anew: the id is
   none of the uuids drawn before the publish, so it differs from the eventId
   of every earlier publish, and it is not the event's correlationId; every
   sqs.sendMessage call of the publish, retries included, carries that
   eventId as its MessageDeduplicationId. *)
C28_FreshEventIdIsDedupId ==
  [][last'.pub.draws > 0 =>
       LET pub == last'.pub
           eventId == uuids + pub.eventId
       IN  /\ eventId > uuids /\ eventId <= uuids'
           /\ eventId # uuids + pub.correlationId
           /\ pub.sends >= 1 /\ Len(pub.dedup) = pub.sends
           /\ \A i \in 1..Len(pub.dedup) : uuids + pub.dedup[i] = eventId]_vars

C28_Witness ==
  /\ last.op = "publishPaymentEvent"
  /\ last.pub.result = "MessageId"
  /\ last.pub.sends = maxRetries + 1
  /\ uuids > last.pub.draws

(* bodies that are no valid JSON or lack a required field of an event *)
InvalidBodies == {"unparsable", "no_data", "no_ids"}

(* C29: a message whose body is no valid JSON, or lacks eventId, eventType,
   data.paymentId, data.reference or data.merchantId, is never dispatched to
   an event handler. *)
C29_InvalidMessageNotDispatched ==
  \A m \in MessageIds :
    queue[m].kind \in InvalidBodies => queue[m].handler # "ok"

(* the status a Stripe payment event stands for *)
StripeEventStatus(event) ==
  IF event = "payment_intent.succeeded" THEN "COMPLETED" ELSE "FAILED"

(* C30: on every Stripe entrypoint, an accepted Stripe payment event whose
   data.object.metadata.payment_reference names a stored payment is applied
   to that payment, with the status COMPLETED for payment_intent.succeeded
   and FAILED for payment_intent.payment_failed, whatever else the payload
   carries. *)
C30_StripeNormalisedEverywhere ==
  ( /\ last.op \in GatewayOperations
    /\ last.gateway = "stripe"
    /\ last.sig = "accepted"
    /\ last.hasData
    /\ last.event \in SupportedEvents("stripe")
    /\ last.paymentReference \in DOMAIN payments )
  => /\ last.ref = last.paymentReference
     /\ last.to = StripeEventStatus(last.event)

(* the status a Flutterwave payload stands for *)
FlutterwaveStatus(event, dataStatus) ==
  IF event = "charge.completed" /\ dataStatus = "successful"
    THEN "COMPLETED" ELSE "FAILED"

(* C31: an accepted Flutterwave webhook whose data.tx_ref names a stored
   payment is applied to that payment with the status COMPLETED only when
   its event is charge.completed and its data.status is successful, and with
   FAILED otherwise. *)
C31_FlutterwaveNormalised ==
  ( /\ last.op \in GatewayOperations
    /\ last.gateway = "flutterwave"
    /\ last.sig = "accepted"
    /\ last.hasData
    /\ last.reference \in DOMAIN payments )
  => /\ last.ref = last.reference
     /\ last.to = FlutterwaveStatus(last.event, last.dataStatus)

(* the status the mapping is described to give: the event's entry in the
   event table, else the status string's entry in the status table, else
   PROCESSING *)
DescribedStatus(status, event) ==
  IF event # Undef /\ lowerCase(event) \in DOMAIN eventMap
    THEN eventMap[lowerCase(event)]
  ELSE IF status # Undef /\ lowerCase(status) \in DOMAIN statusMap
    THEN statusMap[lowerCase(status)]
  ELSE "PROCESSING"

(* the payments-module webhook entrypoints, which map (status, event) with
   mapGatewayStatusToInternal *)
MappingOperations == {"processWebhook", "processGatewaySpecificWebhook"}

(* C32: the generic status mapping never fails: an accepted webhook that
   found its payment goes on to the update with the event's entry in the
   event table whatever the status is, else with the status string's entry
   in the status table, else with PROCESSING. *)
C32_StatusMappingTotal ==
  ( /\ last.op \in MappingOperations
    /\ last.sig = "accepted"
    /\ last.lookup = "row" )
  => last.to = DescribedStatus(last.dataStatus, last.event)

(* C33: with calls interleaved at every database call, an event is handed to
   the publisher only by a call that has already written its status to the
   payment and, for COMPLETED, after the merchant's statistics were updated;
   the event is the one announcing the status that call wrote; a rejected
   call publishes nothing, and nothing is published before the write. *)
C33_PublishAfterPersist ==
  \A p \in Procs :
    /\ proc[p].published # "none" =>
         /\ proc[p].applied
         /\ proc[p].published = eventTypeOf(proc[p].status)
         /\ proc[p].status = "COMPLETED" =>
              merchants[proc[p].payment.merchantId].totalTransactions >= 1
    /\ proc[p].outcome \in {"bad_request", "not_found"} =>
         proc[p].published = "none"
    /\ proc[p].pc \in {"find", "read", "update", "statistics"} =>
         proc[p].published = "none"

C33_Witness ==
  \E p \in Procs :
    /\ proc[p].published = "PAYMENT_COMPLETED"
    /\ proc[p].applied
    /\ \E o \in Procs : proc[o].outcome = "bad_request"

(* the entrypoints of the multi-gateway webhook service *)
MultiGatewayOperations ==
  {"webhooks.processWebhook", "webhooks.processStripeWebhook",
   "webhooks.processPaystackWebhook"}

(* C34: in the multi-gateway flow a webhook verified under the secret of a
   merchant's payment method changes only payments of that merchant. *)
C34_SecretBelongsToPaymentOwner ==
  (last.op \in MultiGatewayOperations /\ last.upd = "ok") =>
    payments[last.ref].merchantId = last.methodOwner

(* the gateways whose webhooks are verified and handled *)
HandledGateways == {"stripe", "paystack", "flutterwave"}

(* C35: a webhook for a gateway other than stripe, paystack and flutterwave
   changes nothing on any entrypoint: it ends rejected or answered with
   success: false, with every payment (webhook counters included) and every
   merchant statistic unchanged and nothing published. *)
C35_UnknownGatewayChangesNothing ==
  [][(last'.op \in GatewayOperations /\ last'.gateway \notin HandledGateways) =>
       /\ payments' = payments
       /\ merchants' = merchants
       /\ last'.outcome \in {"bad_request", "not_found", "failed_response"}
       /\ last'.pub = NoPublish]_vars

C35_Witness ==
  /\ last.op = "webhooks.processWebhook"
  /\ last.gateway = "paypal"
  /\ last.sig = "accepted"
  /\ last.outcome = "failed_response"
  /\ last.reference \in DOMAIN payments
  /\ payments[last.reference].status = "PENDING"

(* a batch publish with a configured queue has answered *)
BatchAnswered ==
  last.op = "sendBatchMessages" /\ sqsConfigured(awsConfig)

(* C36 as stated: with a configured queue sendBatchMessages returns normally
   only if the queue accepted every input event at least once, and if some
   event exhausts its retries the call fails with an error. *)
C36_ExhaustedRetriesFailTheCall ==
  BatchAnswered =>
    /\ last.outcome = "ok" => \A e \in 1..last.events : last.accepted[e] >= 1
    /\ (\E e \in 1..last.events : last.exhausted[e] >= 1) =>
         last.outcome = "error"

(* C36 amended: with a configured queue sendBatchMessages returns normally
   only if the queue accepted every input event at least once; an event the
   queue never accepted makes the call fail with an error. *)
C36_NoEventSilentlyDropped ==
  BatchAnswered =>
    /\ last.outcome = "ok" => \A e \in 1..last.events : last.accepted[e] >= 1
    /\ (\E e \in 1..last.events : last.accepted[e] = 0) =>
         last.outcome = "error"

C36_Witness ==
  /\ BatchAnswered
  /\ last.events = MaxBatchEvents
  /\ last.outcome = "ok"
  /\ \E e \in 1..last.events :
       /\ e \in last.batchResult.Failed
       /\ last.exhausted[e] = 1
       /\ last.accepted[e] = 1

(* C37: a webhook of the payments module that carries a gateway fee f and
   completes a payment leaves the payment with gatewayFee f and with
   netAmount = amount - f - platformFee. *)
C37_WebhookFeeStored ==
  ( /\ last.op \in MappingOperations
    /\ last.upd = "ok"
    /\ last.to = "COMPLETED"
    /\ last.fee > 0 )
  => /\ payments[last.ref].gatewayFee = last.fee
     /\ payments[last.ref].netAmount
          = payments[last.ref].amount - last.fee - payments[last.ref].platformFee

====
